---------------------------- MODULE Spec2Model ----------------------------
(***************************************************************************)
(* Model of arke-ingest-worker: the Batch Coordinator (the BatchStateObject *)
(* Durable Object), the finalize handler and the Initial Discovery engine.  *)
(*                                                                          *)
(* Strings that the code splits are kept in split form: a path is the       *)
(* sequence path.split('/') ("/" is <<"","">>, "/a/b" is <<"","a","b">>),   *)
(* a file name is the sequence name.split('.').  JavaScript's undefined is  *)
(* the empty tuple; content ids and entity ids are tuples so that every     *)
(* value of a field is comparable with every other.                         *)
(***************************************************************************)
EXTENDS Integers, Sequences, FiniteSets, TLC

VARIABLES
    \* ---- Durable Object storage (key 'state', key 'manifest', the alarm)
    status,        \* state.status
    files,         \* state.files
    disc,          \* state.discovery_state (Undefined until discovery starts)
    root_pi,       \* state.root_pi
    doManifest,    \* storage key 'manifest'
    alarmSet,      \* a scheduled trigger is pending
    \* ---- executions in flight
    gate,          \* the event holding the object's input gate, or Undefined
    proc,          \* the HTTP handlers: position and locals of each
    alarm,         \* the alarm() invocation: position and in-memory state
    \* ---- external collaborators
    env,           \* what the blob store and content upload answer per r2 key
    entities,      \* the entity store: the sequence of entities created
    queue,         \* messages sent to PREPROCESS_QUEUE
    r2Manifest,    \* the manifest object in the staging bucket
    multipart,     \* multipart completions requested from the bucket
    clock,         \* the time new Date() reads
    cas,           \* a mutating entity-store call inside executeWithCASRetry
    chunker,       \* a call of chunkText: its arguments and what it returned
    kv,            \* the KV namespace's batch entry and the updateBatchState calls on it
    hist           \* history: what the claims count (never read by the program)

vars == <<status, files, disc, root_pi, doManifest, alarmSet, gate, proc, alarm,
          env, entities, queue, r2Manifest, multipart, clock, cas, chunker, kv, hist>>

Undefined == <<>>
EmptyCid == <<"">>

\* Array.prototype helpers
Last(s) == s[Len(s)]
Range(s) == {s[i] : i \in 1..Len(s)}
Includes(s, x) == x \in Range(s)
Slice(s, n) == SubSeq(s, 1, IF n < Len(s) THEN n ELSE Len(s))
Max(S) == CHOOSE x \in S : \A y \in S : y <= x

-----------------------------------------------------------------------------
(* Paths and file names *)

Root == <<"", "">>

\* dirPath.split('/').filter((p) => p)
Parts(path) == SelectSeq(path, LAMBDA s : s # "")

\* '/' + parts.join('/')
SlashJoin(parts) == IF parts = <<>> THEN Root ELSE <<"">> \o parts

DepthOf(path) == IF path = Root THEN 0 ELSE Len(Parts(path))

ParentPathOf(path) ==
    LET parts == Parts(path)
    IN  IF Len(parts) = 1 THEN Root ELSE SlashJoin(SubSeq(parts, 1, Len(parts) - 1))

TEXT_EXTENSIONS == {"md", "txt", "json", "xml", "csv", "html", "htm"}

ToLowerCase(s) ==
    CASE s = "TXT" -> "txt"
      [] s = "MD" -> "md"
      [] OTHER -> s

isTextFile(filename) ==
    LET ext == IF filename = <<>> THEN "" ELSE ToLowerCase(Last(filename))
    IN  ext \in TEXT_EXTENSIONS

\* The order String.localeCompare gives the paths of the model.
SegRank(s) ==
    CASE s = "" -> 0
      [] s = "a" -> 1
      [] s = "b" -> 2
      [] s = "c" -> 3
      [] OTHER -> 4

RECURSIVE PathLess(_, _)
PathLess(p, q) ==
    IF p = <<>> THEN q # <<>>
    ELSE IF q = <<>> THEN FALSE
    ELSE IF SegRank(Head(p)) # SegRank(Head(q)) THEN SegRank(Head(p)) < SegRank(Head(q))
    ELSE PathLess(Tail(p), Tail(q))

RECURSIVE SortPaths(_)
SortPaths(S) ==
    IF S = {} THEN <<>>
    ELSE LET m == CHOOSE x \in S : \A y \in S \ {x} : PathLess(x, y)
         IN  <<m>> \o SortPaths(S \ {m})

-----------------------------------------------------------------------------
(* The manifest finalize builds from the tracked files *)

\* lastSlash > 0 ? logical_path.substring(0, lastSlash) : '/'
DirectoryOf(logical_path) ==
    LET n == Len(logical_path)
    IN  IF n >= 3 \/ (n = 2 /\ logical_path[1] # "")
        THEN SubSeq(logical_path, 1, n - 1)
        ELSE Root

ManifestFile(f) == [r2_key |-> f.r2_key, file_name |-> f.file_name]

BuildManifest(fs) ==
    LET dirs == {DirectoryOf(fs[i].logical_path) : i \in 1..Len(fs)}
        sorted == SortPaths(dirs)
        group(d) ==
            LET mine == SelectSeq(fs, LAMBDA f : DirectoryOf(f.logical_path) = d)
            IN  [directory_path |-> d,
                 files |-> [i \in 1..Len(mine) |-> ManifestFile(mine[i])]]
    IN  [directories |-> [i \in 1..Len(sorted) |-> group(sorted[i])],
         total_files |-> Len(fs)]

-----------------------------------------------------------------------------
(* buildDiscoveryTree *)

NewNode(path, depth, children) ==
    [path |-> path, depth |-> depth, parent_path |-> Undefined,
     children_paths |-> children, text_files |-> <<>>, published |-> FALSE,
     pi |-> Undefined, tip |-> Undefined, version |-> 0]

TextFilesOf(dirGroup) ==
    LET txt == SelectSeq(dirGroup.files, LAMBDA f : isTextFile(f.file_name))
    IN  [i \in 1..Len(txt) |->
            [filename |-> txt[i].file_name, r2_key |-> txt[i].r2_key, cid |-> Undefined]]

\* The first loop: one node per directory group, in manifest order.  tree is
\* [nodes, keys, all, total]: keys is the insertion order of the nodes object,
\* all is allPaths in insertion order.  An unset version is 0 (versions start
\* at 1) and an unset retry_count is 0 (the code reads it as retry_count || 0).
RECURSIVE CreateNodes(_, _, _)
CreateNodes(directories, i, tree) ==
    IF i > Len(directories) THEN tree
    ELSE LET g == directories[i]
             p == g.directory_path
             node == [NewNode(p, DepthOf(p), <<>>) EXCEPT !.text_files = TextFilesOf(g)]
             known == p \in DOMAIN tree.nodes
         IN  CreateNodes(directories, i + 1,
                [nodes |-> [q \in DOMAIN tree.nodes \cup {p} |->
                               IF q = p THEN node ELSE tree.nodes[q]],
                 keys  |-> IF known THEN tree.keys ELSE Append(tree.keys, p),
                 all   |-> IF Includes(tree.all, p) THEN tree.all ELSE Append(tree.all, p),
                 total |-> tree.total + Len(node.text_files)])

\* The second loop, over allPaths (a Set iterated while it grows): link each
\* path to its parent, creating the parent when the manifest did not name it.
RECURSIVE LinkParents(_, _)
LinkParents(tree, i) ==
    IF i > Len(tree.all) THEN tree
    ELSE LET p == tree.all[i]
         IN  IF p = Root THEN LinkParents(tree, i + 1)
             ELSE LET parent == ParentPathOf(p)
                      withParentPath ==
                          IF p \in DOMAIN tree.nodes
                          THEN [tree.nodes EXCEPT ![p].parent_path = parent]
                          ELSE tree.nodes
                      missing == parent \notin DOMAIN withParentPath
                      withParent ==
                          [q \in DOMAIN withParentPath \cup {parent} |->
                              IF q = parent /\ missing
                              THEN NewNode(parent, DepthOf(parent), <<>>)
                              ELSE withParentPath[q]]
                      linked ==
                          IF Includes(withParent[parent].children_paths, p)
                          THEN withParent
                          ELSE [withParent EXCEPT ![parent].children_paths = Append(@, p)]
                  IN  LinkParents(
                         [tree EXCEPT !.nodes = linked,
                                      !.keys = IF missing THEN Append(@, parent) ELSE @,
                                      !.all = IF missing THEN Append(@, parent) ELSE @],
                         i + 1)

\* A root that is added to the nodes and left out of their enumeration
RootUncounted(tree) ==
    IF Root \in DOMAIN tree.nodes THEN tree
    ELSE [tree EXCEPT !.nodes = [q \in DOMAIN tree.nodes \cup {Root} |->
                                    IF q = Root THEN NewNode(Root, 0, <<>>)
                                    ELSE tree.nodes[q]]]

EnsureRoot(tree) ==
    IF Root \in DOMAIN tree.nodes THEN tree
    ELSE LET top == SelectSeq(tree.all, LAMBDA p : p # Root /\ Len(Parts(p)) = 1)
         IN  [tree EXCEPT !.nodes = [q \in DOMAIN tree.nodes \cup {Root} |->
                                        IF q = Root THEN NewNode(Root, 0, top)
                                        ELSE tree.nodes[q]],
                          !.keys = Append(@, Root)]

buildDiscoveryTree(manifest) ==
    LET empty == [nodes |-> << >>, keys |-> <<>>, all |-> <<>>, total |-> 0]
        tree == EnsureRoot(LinkParents(CreateNodes(manifest.directories, 1, empty), 1))
        maxDepth == Max({tree.nodes[p].depth : p \in DOMAIN tree.nodes})
    IN  [nodes |-> tree.nodes,
         keys |-> tree.keys,
         directories_total |-> Len(tree.keys),
         directories_published |-> 0,
         node_pis |-> << >>,
         node_tips |-> << >>,
         node_versions |-> << >>,
         phase |-> IF tree.total > 0 THEN "UPLOADING" ELSE "PUBLISHING",
         current_depth |-> maxDepth,
         files_total |-> tree.total,
         files_uploaded |-> 0,
         error |-> Undefined,
         retry_count |-> 0]

-----------------------------------------------------------------------------
(* The Discovery Processor: what one step selects and what one item does *)

SYNC_BATCH_SIZE == 1000

RECURSIVE Flatten(_)
Flatten(ss) == IF ss = <<>> THEN <<>> ELSE Head(ss) \o Flatten(Tail(ss))

\* Files whose cid is undefined, in Object.values(nodes) order, as <<path, index>>
getFilesNeedingUpload(ds) ==
    LET ofNode(p) ==
            LET tf == ds.nodes[p].text_files
                idx == SelectSeq([i \in 1..Len(tf) |-> i], LAMBDA i : tf[i].cid = Undefined)
            IN  [j \in 1..Len(idx) |-> <<p, idx[j]>>]
    IN  Flatten([k \in 1..Len(ds.keys) |-> ofNode(ds.keys[k])])

CidOf(r2_key) == <<"cid", r2_key>>

\* An upload whose failure is not caught per file: nothing is recorded for it
UploadOneUncaught(ds, item, outcome) ==
    LET p == item[1]
        tf == ds.nodes[p].text_files
        withCid(cid) ==
            [q \in DOMAIN ds.nodes |->
                IF q # p THEN ds.nodes[q]
                ELSE [ds.nodes[q] EXCEPT !.text_files =
                         [j \in 1..Len(tf) |->
                             IF j = item[2] THEN [tf[j] EXCEPT !.cid = cid] ELSE tf[j]]]]
    IN  IF outcome = "ok"
        THEN [ds EXCEPT !.nodes = withCid(<<"cid", tf[item[2]].r2_key>>),
                        !.files_uploaded = @ + 1]
        ELSE ds

\* One file of the batch: the blob is read and uploaded ("ok"), the bucket has
\* no object under the key ("absent"), or the read or the upload throws ("fail").
UploadOne(ds, item, outcome) ==
    LET p == item[1]
        tf == ds.nodes[p].text_files
        withCid(cid) ==
            [q \in DOMAIN ds.nodes |->
                IF q # p THEN ds.nodes[q]
                ELSE [ds.nodes[q] EXCEPT !.text_files =
                         [j \in 1..Len(tf) |->
                             IF j = item[2] THEN [tf[j] EXCEPT !.cid = cid] ELSE tf[j]]]]
    IN  CASE outcome = "ok" ->
               [ds EXCEPT !.nodes = withCid(CidOf(tf[item[2]].r2_key)),
                          !.files_uploaded = @ + 1]
          [] outcome = "fail" ->
               [ds EXCEPT !.nodes = withCid(EmptyCid),
                          !.files_uploaded = @ + 1]
          [] OTHER -> ds

\* A step that leaves the phase whatever remains to upload
LeaveUploading(ds) == [ds EXCEPT !.phase = "PUBLISHING"]

\* The check that closes uploadFileBatch
AfterUploads(ds) ==
    IF getFilesNeedingUpload(ds) = <<>> THEN [ds EXCEPT !.phase = "PUBLISHING"] ELSE ds

\* A selection that looks at neither depth nor children
AllUnpublished(ds) == SelectSeq(ds.keys, LAMBDA p : ~ds.nodes[p].published)

allChildrenPublished(node, ds) ==
    \A i \in 1..Len(node.children_paths) :
        LET childPath == node.children_paths[i]
        IN  childPath \in DOMAIN ds.nodes /\ ds.nodes[childPath].published

getDirectoriesReadyToPublish(ds) ==
    SelectSeq(ds.keys, LAMBDA p :
        /\ ds.nodes[p].depth = ds.current_depth
        /\ ~ds.nodes[p].published
        /\ allChildrenPublished(ds.nodes[p], ds))

\* The request publishDirectory builds before its first await
CreateRequest(ds, p) ==
    LET node == ds.nodes[p]
        tf == node.text_files
        withCid == {i \in 1..Len(tf) : tf[i].cid # Undefined /\ tf[i].cid # EmptyCid}
        pis == [i \in 1..Len(node.children_paths) |->
                   IF node.children_paths[i] \in DOMAIN ds.node_pis
                   THEN ds.node_pis[node.children_paths[i]] ELSE Undefined]
    IN  [components |-> {<<tf[i].filename, tf[i].cid>> : i \in withCid},
         children_pi |-> SelectSeq(pis, LAMBDA pi : pi # Undefined)]

\* The entity store: entities are numbered in creation order.
NewEntity(store, req) ==
    [pi |-> <<"pi", Len(store) + 1>>, components |-> req.components,
     children_pi |-> req.children_pi, parent_pi |-> Undefined]

TipOf(pi) == <<"tip", pi[2], 1>>

SetAt(f, k, v) == [x \in DOMAIN f \cup {k} |-> IF x = k THEN v ELSE f[x]]

\* A record that marks the node published and keeps no id for its path
RecordWithoutPi(ds, p, pi) ==
    [ds EXCEPT !.nodes = [q \in DOMAIN ds.nodes |->
                             IF q # p THEN ds.nodes[q]
                             ELSE [ds.nodes[q] EXCEPT !.published = TRUE]],
               !.directories_published = @ + 1]

\* A record that leaves directories_published as it was
RecordUncounted(ds, p, pi) ==
    [ds EXCEPT !.nodes = [q \in DOMAIN ds.nodes |->
                             IF q # p THEN ds.nodes[q]
                             ELSE [ds.nodes[q] EXCEPT !.pi = pi, !.tip = TipOf(pi),
                                                      !.version = 1, !.published = TRUE]],
               !.node_pis = SetAt(@, p, pi),
               !.node_tips = SetAt(@, p, TipOf(pi)),
               !.node_versions = SetAt(@, p, 1)]

\* What publishDirectory records once createEntity has answered
RecordPublished(ds, p, pi) ==
    [ds EXCEPT !.nodes = [q \in DOMAIN ds.nodes |->
                             IF q # p THEN ds.nodes[q]
                             ELSE [ds.nodes[q] EXCEPT !.pi = pi, !.tip = TipOf(pi),
                                                      !.version = 1, !.published = TRUE]],
               !.node_pis = SetAt(@, p, pi),
               !.node_tips = SetAt(@, p, TipOf(pi)),
               !.node_versions = SetAt(@, p, 1),
               !.directories_published = @ + 1]

\* A depth walk that stops at the first depth with no directory ready
LeaveAtAnyDepth(ds) == [ds EXCEPT !.phase = "RELATIONSHIPS"]

\* publishDirectoryBatch when no directory is ready at the current depth
NoneReady(ds) ==
    IF ds.current_depth > 0
    THEN [ds EXCEPT !.current_depth = @ - 1]
    ELSE [ds EXCEPT !.phase = "RELATIONSHIPS"]

-----------------------------------------------------------------------------
(* runSyncDiscovery: the steps run to completion inside one call, every      *)
(* batch joined before the next begins.  e maps an r2 key to what its read   *)
(* and upload answer; creates answer in the order they were issued.          *)

RECURSIVE UploadEach(_, _, _)
UploadEach(ds, items, e) ==
    IF items = <<>> THEN ds
    ELSE UploadEach(UploadOne(ds, Head(items),
                              e[ds.nodes[Head(items)[1]].text_files[Head(items)[2]].r2_key]),
                    Tail(items), e)

uploadFileBatchJoined(ds, e, batchSize) ==
    LET pendingFiles == Slice(getFilesNeedingUpload(ds), batchSize)
    IN  IF pendingFiles = <<>> THEN [ds EXCEPT !.phase = "PUBLISHING"]
        ELSE AfterUploads(UploadEach(ds, pendingFiles, e))

\* while (state.phase === 'UPLOADING'): a step that changes nothing repeats forever
RECURSIVE WhileUploading(_, _)
WhileUploading(ds, e) ==
    IF ds.phase # "UPLOADING" THEN ds
    ELSE LET next == uploadFileBatchJoined(ds, e, SYNC_BATCH_SIZE)
         IN  IF next = ds THEN ds ELSE WhileUploading(next, e)

\* run is [ds, store]; reqs are the requests of the batch, built at its start
RECURSIVE PublishEach(_, _, _)
PublishEach(run, readyDirs, ds0) ==
    IF readyDirs = <<>> THEN run
    ELSE LET entity == NewEntity(run.store, CreateRequest(ds0, Head(readyDirs)))
         IN  PublishEach([ds |-> RecordPublished(run.ds, Head(readyDirs), entity.pi),
                          store |-> Append(run.store, entity)],
                         Tail(readyDirs), ds0)

publishDirectoryBatchJoined(run, batchSize) ==
    LET readyDirs == Slice(getDirectoriesReadyToPublish(run.ds), batchSize)
    IN  IF readyDirs = <<>> THEN [run EXCEPT !.ds = NoneReady(run.ds)]
        ELSE PublishEach(run, readyDirs, run.ds)

RECURSIVE WhilePublishing(_)
WhilePublishing(run) ==
    IF run.ds.phase # "PUBLISHING" THEN run
    ELSE WhilePublishing(publishDirectoryBatchJoined(run, SYNC_BATCH_SIZE))

\* init-batch stores parent_pi || '00000000000000000000000000': never empty
ParentPi == <<"pi", 0>>

\* POST /relations with add_children [child]: the bidirectional attach
Attach(store, parent, child) ==
    [i \in 1..Len(store) |->
        IF store[i].pi = child THEN [store[i] EXCEPT !.parent_pi = parent] ELSE store[i]]

\* establishRelationships; attached: whether addChildToParent succeeded
establishRelationships(run, attached) ==
    [ds |-> [run.ds EXCEPT !.phase = "DONE"],
     store |-> IF Root \in DOMAIN run.ds.node_pis /\ attached
               THEN Attach(run.store, ParentPi, run.ds.node_pis[Root])
               ELSE run.store]

DiscoveryResultOf(ds) ==
    [root_pi |-> ds.node_pis[Root], node_pis |-> ds.node_pis,
     node_tips |-> ds.node_tips, node_versions |-> ds.node_versions]

\* The whole call when no create fails: [returns, ds, store].  returns is
\* FALSE when the upload loop never ends (a text file whose blob is absent).
runSyncDiscovery(manifest, e, store, attached) ==
    LET uploaded == WhileUploading(buildDiscoveryTree(manifest), e)
    IN  IF uploaded.phase = "UPLOADING"
        THEN [returns |-> FALSE, ds |-> uploaded, store |-> store]
        ELSE LET run == establishRelationships(
                            WhilePublishing([ds |-> uploaded, store |-> store]), attached)
             IN  [returns |-> TRUE, ds |-> run.ds, store |-> run.store]

-----------------------------------------------------------------------------
(* The Durable Object.  A method that awaits only its own storage runs with  *)
(* the input gate closed, so it is one action; alarm() also awaits the blob  *)
(* store, the entity store and the queue, and other events are delivered to  *)
(* the object while it waits.                                                *)

DISCOVERY_UPLOAD_BATCH_SIZE == 100
DISCOVERY_ENTITY_BATCH_SIZE == 100
DISCOVERY_MAX_RETRIES == 5

\* this.ctx.storage.get('state')
StateGet == [status |-> status, files |-> files, disc |-> disc, root_pi |-> root_pi]

\* this.ctx.storage.put('state', st)
StatePut(st) ==
    /\ status' = st.status
    /\ files' = st.files
    /\ disc' = st.disc
    /\ root_pi' = st.root_pi

\* A store without an input gate, as the KV namespace the object replaced
NoInputGate(holder) == TRUE

\* An event is delivered only while no other event holds the input gate.
InputGateOpen(holder) == holder = Undefined

AlarmIdle == [pc |-> "idle", st |-> Undefined, read |-> Undefined,
              inflight |-> {}, orphans |-> {}]

\* The in-memory discovery state of the running step
Mem == alarm.st.disc

WithDisc(st, ds) == [st EXCEPT !.disc = ds]

\* Math.min(30000, 1000 * Math.pow(2, retry_count)), in milliseconds
BackoffDelay(retry_count) ==
    IF 1000 * 2^retry_count < 30000 THEN 1000 * 2^retry_count ELSE 30000

\* A catch block that always schedules another attempt
CaughtWithoutLimit(st, message) ==
    [st |-> [st EXCEPT !.disc = [st.disc EXCEPT !.error = <<message>>,
                                                !.retry_count = @ + 1]],
     again |-> TRUE,
     delay |-> BackoffDelay(st.disc.retry_count + 1)]

\* A catch block that notes the failure and schedules nothing
CaughtWithoutRetry(st, message) ==
    [st |-> [st EXCEPT !.disc = [st.disc EXCEPT !.error = <<message>>,
                                                !.retry_count = @ + 1]],
     again |-> FALSE,
     delay |-> 0]

\* The catch block of alarm(): [st, again, delay]; again: a retry is
\* scheduled, after delay
Caught(st, message) ==
    LET count == st.disc.retry_count + 1
        noted == [st.disc EXCEPT !.error = <<message>>, !.retry_count = count]
    IN  IF count < DISCOVERY_MAX_RETRIES
        THEN [st |-> WithDisc(st, noted), again |-> TRUE, delay |-> BackoffDelay(count)]
        ELSE [st |-> [st EXCEPT !.status = "failed",
                                !.disc = [noted EXCEPT !.phase = "ERROR"]],
              again |-> FALSE, delay |-> 0]

\* The message enqueueToPreprocessor sends
QueueMessageOf(st, manifest) ==
    [total_files |-> manifest.total_files,
     root_pi |-> IF Root \in DOMAIN st.disc.node_pis THEN st.disc.node_pis[Root] ELSE Undefined,
     node_pis |-> st.disc.node_pis,
     node_tips |-> st.disc.node_tips,
     node_versions |-> st.disc.node_versions]

\* After establishRelationships: Discovery complete!
Completed(st) ==
    [st EXCEPT !.disc = [st.disc EXCEPT !.phase = "DONE"],
               !.root_pi = IF Root \in DOMAIN st.disc.node_pis
                           THEN st.disc.node_pis[Root] ELSE Undefined,
               !.status = "preprocessing"]

-----------------------------------------------------------------------------
(* alarm() *)

UnchangedStore == UNCHANGED <<status, files, disc, root_pi>>
UnchangedWorld == UNCHANGED <<env, r2Manifest, multipart, clock, cas, chunker, kv>>

AlarmDue == alarmSet /\ alarm.pc = "idle" /\ InputGateOpen(gate)

\* A trigger outside discovery that is taken for a failure of the batch
AlarmIgnoredAsFailure ==
    /\ AlarmDue
    /\ \/ status # "discovery"
       \/ disc = Undefined
       \/ disc.phase \in {"DONE", "ERROR"}
    /\ alarmSet' = FALSE
    /\ status' = IF status # "discovery" THEN "failed" ELSE status
    /\ UNCHANGED <<files, disc, root_pi>> /\ UnchangedWorld
    /\ UNCHANGED <<doManifest, gate, proc, alarm, entities, queue, hist>>

\* Lines 673-676 and the DONE branch: the trigger finds nothing to do.
AlarmIgnored ==
    /\ AlarmDue
    /\ \/ status # "discovery"
       \/ disc = Undefined
       \/ disc.phase \in {"DONE", "ERROR"}
    /\ alarmSet' = FALSE
    /\ UnchangedStore /\ UnchangedWorld
    /\ UNCHANGED <<doManifest, gate, proc, alarm, entities, queue, hist>>

\* A step that takes up everything that is eligible
SelectedAll(ds) ==
    IF ds.phase = "UPLOADING"
    THEN Range(getFilesNeedingUpload(ds))
    ELSE {[path |-> p, req |-> CreateRequest(ds, p)] :
              p \in Range(getDirectoriesReadyToPublish(ds))}

\* What the step of the current phase selects
Selected(ds) ==
    IF ds.phase = "UPLOADING"
    THEN Range(Slice(getFilesNeedingUpload(ds), env.batch[1]))
    ELSE {[path |-> p, req |-> CreateRequest(ds, p)] :
              p \in Range(Slice(getDirectoriesReadyToPublish(ds), env.batch[2]))}

\* A step that selects nothing moves on and returns without awaiting anything
\* but storage: it is persisted and rescheduled at once.
AlarmStepEmpty ==
    /\ AlarmDue
    /\ status = "discovery" /\ disc # Undefined
    /\ disc.phase \in {"UPLOADING", "PUBLISHING"}
    /\ Selected(disc) = {}
    /\ disc' = IF disc.phase = "UPLOADING"
               THEN [disc EXCEPT !.phase = "PUBLISHING"]
               ELSE NoneReady(disc)
    /\ alarmSet' = TRUE
    /\ UNCHANGED <<status, files, root_pi>> /\ UnchangedWorld
    /\ UNCHANGED <<doManifest, gate, proc, alarm, entities, queue, hist>>

\* The step issues its uploads or creates, all at once, and awaits them.
AlarmStepBegin ==
    /\ AlarmDue
    /\ status = "discovery" /\ disc # Undefined
    /\ disc.phase \in {"UPLOADING", "PUBLISHING"}
    /\ Selected(disc) # {}
    /\ alarm' = [pc |-> IF disc.phase = "UPLOADING" THEN "uploading" ELSE "publishing",
                 st |-> StateGet, read |-> StateGet,
                 inflight |-> Selected(disc), orphans |-> alarm.orphans]
    /\ alarmSet' = FALSE
    /\ UnchangedStore /\ UnchangedWorld
    /\ UNCHANGED <<doManifest, gate, proc, entities, queue, hist>>

\* One upload of the batch settles; the last one joins the batch: the state
\* is persisted and the next trigger scheduled.
AlarmUploadDone(item) ==
    /\ alarm.pc = "uploading" /\ item \in alarm.inflight
    /\ InputGateOpen(gate)
    /\ LET key == Mem.nodes[item[1]].text_files[item[2]].r2_key
           ds == UploadOne(Mem, item, env.upload[key])
           rest == alarm.inflight \ {item}
       IN  IF rest # {}
           THEN /\ alarm' = [alarm EXCEPT !.st = WithDisc(alarm.st, ds), !.inflight = rest]
                /\ UnchangedStore
                /\ UNCHANGED alarmSet
           ELSE /\ StatePut(WithDisc(alarm.st, AfterUploads(ds)))
                /\ alarmSet' = TRUE
                /\ alarm' = [AlarmIdle EXCEPT !.orphans = alarm.orphans]
    /\ UnchangedWorld
    /\ UNCHANGED <<doManifest, gate, proc, entities, queue, hist>>

\* One createEntity of the batch answers.  A rejection rejects Promise.all:
\* the catch block runs while the other creates are still in flight.
AlarmCreateDone(item, ok) ==
    /\ alarm.pc = "publishing" /\ item \in alarm.inflight
    /\ InputGateOpen(gate)
    /\ LET rest == alarm.inflight \ {item}
           entity == NewEntity(entities, item.req)
           ds == RecordPublished(Mem, item.path, entity.pi)
           caught == Caught(alarm.st, "create")
       IN  IF ok
           THEN /\ entities' = Append(entities, entity)
                /\ hist' = [hist EXCEPT !.created = Append(@, item.path)]
                /\ IF rest # {}
                   THEN /\ alarm' = [alarm EXCEPT !.st = WithDisc(alarm.st, ds),
                                                  !.inflight = rest]
                        /\ UnchangedStore
                        /\ UNCHANGED alarmSet
                   ELSE /\ StatePut(WithDisc(alarm.st, ds))
                        /\ alarmSet' = TRUE
                        /\ alarm' = [AlarmIdle EXCEPT !.orphans = alarm.orphans]
           ELSE /\ StatePut(caught.st)
                /\ alarmSet' = (caught.again \/ alarmSet)
                /\ alarm' = [AlarmIdle EXCEPT !.orphans = alarm.orphans \cup rest]
                /\ hist' = [hist EXCEPT !.delay = caught.delay]
                /\ UNCHANGED entities
    /\ UnchangedWorld
    /\ UNCHANGED <<doManifest, gate, proc, queue>>

\* A create left in flight by a rejected batch answers: nobody is listening.
OrphanCreateDone(item, ok) ==
    /\ item \in alarm.orphans
    /\ alarm' = [alarm EXCEPT !.orphans = @ \ {item}]
    /\ IF ok THEN /\ entities' = Append(entities, NewEntity(entities, item.req))
                  /\ hist' = [hist EXCEPT !.created = Append(@, item.path)]
             ELSE UNCHANGED <<entities, hist>>
    /\ UnchangedStore /\ UnchangedWorld
    /\ UNCHANGED <<doManifest, alarmSet, gate, proc, queue>>

\* state.status = 'preprocessing' is persisted, then enqueueToPreprocessor
\* reads the stored manifest and either throws at once or awaits the queue.
\* scheduled: whether a trigger is pending when this runs.
CompleteAndEnqueue(st, scheduled) ==
    IF doManifest = Undefined
    THEN LET caught == Caught(st, "Manifest not found")
         IN  /\ StatePut(caught.st)
             /\ alarmSet' = (caught.again \/ scheduled)
             /\ alarm' = [AlarmIdle EXCEPT !.orphans = alarm.orphans]
             /\ hist' = [hist EXCEPT !.delay = caught.delay]
    ELSE /\ StatePut(st)
         /\ alarmSet' = scheduled
         /\ UNCHANGED hist
         /\ alarm' = [pc |-> "sending", st |-> st, read |-> st,
                      inflight |-> {}, orphans |-> alarm.orphans]

\* The RELATIONSHIPS branch up to its first await: the attach of the root to
\* the external parent, when there is a root entity to attach.
AlarmRelationships ==
    /\ AlarmDue
    /\ status = "discovery" /\ disc # Undefined
    /\ disc.phase = "RELATIONSHIPS"
    /\ IF Root \in DOMAIN disc.node_pis
       THEN /\ alarm' = [pc |-> "attaching", st |-> StateGet, read |-> StateGet,
                         inflight |-> {}, orphans |-> alarm.orphans]
            /\ alarmSet' = FALSE
            /\ UnchangedStore
            /\ UNCHANGED hist
       ELSE CompleteAndEnqueue(Completed(StateGet), FALSE)
    /\ UnchangedWorld
    /\ UNCHANGED <<doManifest, gate, proc, entities, queue>>

\* An attach whose failure is not swallowed: it lands in the catch block of
\* alarm() like any other failure of the step
AlarmAttachThrows(ok) ==
    /\ alarm.pc = "attaching"
    /\ InputGateOpen(gate)
    /\ IF ok
       THEN /\ entities' = Attach(entities, ParentPi, Mem.node_pis[Root])
            /\ CompleteAndEnqueue(Completed(alarm.st), alarmSet)
       ELSE /\ UNCHANGED entities
            /\ StatePut(Caught(alarm.st, "attach").st)
            /\ alarmSet' = (Caught(alarm.st, "attach").again \/ alarmSet)
            /\ hist' = [hist EXCEPT !.delay = Caught(alarm.st, "attach").delay]
            /\ alarm' = [AlarmIdle EXCEPT !.orphans = alarm.orphans]
    /\ UnchangedWorld
    /\ UNCHANGED <<doManifest, gate, proc, queue>>

\* addChildToParent answers (a failure is logged and swallowed); the state is
\* completed and persisted before the message is sent.
AlarmAttachDone(ok) ==
    /\ alarm.pc = "attaching"
    /\ InputGateOpen(gate)
    /\ entities' = IF ok THEN Attach(entities, ParentPi, Mem.node_pis[Root]) ELSE entities
    /\ CompleteAndEnqueue(Completed(alarm.st), alarmSet)
    /\ UnchangedWorld
    /\ UNCHANGED <<doManifest, gate, proc, queue>>

\* PREPROCESS_QUEUE.send answers; a failure lands in the catch block.
AlarmSendDone(ok) ==
    /\ alarm.pc = "sending"
    /\ InputGateOpen(gate)
    /\ IF ok
       THEN /\ queue' = Append(queue, QueueMessageOf(alarm.st, doManifest))
            /\ UnchangedStore
            /\ UNCHANGED <<alarmSet, hist>>
       ELSE /\ StatePut(Caught(alarm.st, "send").st)
            /\ alarmSet' = (Caught(alarm.st, "send").again \/ alarmSet)
            /\ hist' = [hist EXCEPT !.delay = Caught(alarm.st, "send").delay]
            /\ UNCHANGED queue
    /\ alarm' = [AlarmIdle EXCEPT !.orphans = alarm.orphans]
    /\ UnchangedWorld
    /\ UNCHANGED <<doManifest, gate, proc, entities>>

AlarmStep ==
    \/ AlarmIgnored
    \/ AlarmStepEmpty
    \/ AlarmStepBegin
    \/ AlarmRelationships
    \/ \E item \in alarm.inflight : AlarmUploadDone(item)
    \/ \E item \in alarm.inflight, ok \in BOOLEAN : AlarmCreateDone(item, ok)
    \/ \E ok \in BOOLEAN : AlarmAttachDone(ok)
    \/ \E ok \in BOOLEAN : AlarmSendDone(ok)

Orphans == \E item \in alarm.orphans, ok \in BOOLEAN : OrphanCreateDone(item, ok)

-----------------------------------------------------------------------------
(* HTTP handlers.  proc maps a request in flight to its position and locals: *)
(* st is the state the handler read, manifest and result what it built, ret  *)
(* what the last Durable Object call returned.                               *)

\* What a handler got back: the HTTP code it answers with or the call's result
Ret(code) == [code |-> code, error |-> "", alreadyCompleted |-> FALSE,
              needsMultipartComplete |-> FALSE]

Handler(pc) == [pc |-> pc, st |-> Undefined, file |-> Undefined, manifest |-> Undefined,
                result |-> Undefined, ret |-> Ret("")]

UnchangedDiscovery == UNCHANGED <<doManifest, alarmSet, alarm, entities, queue>>

\* ---- POST /files/start

\* lines 61-70 of the handler: the status check on the state as read
StartFileGetState(u, fileState) ==
    /\ proc[u].pc = "start"
    /\ InputGateOpen(gate)
    /\ proc' = [proc EXCEPT ![u] =
                  IF status # "uploading"
                  THEN [@ EXCEPT !.pc = "done", !.ret = Ret("400")]
                  ELSE [@ EXCEPT !.pc = "add", !.file = fileState]]
    /\ UnchangedStore /\ UnchangedWorld /\ UnchangedDiscovery
    /\ UNCHANGED <<gate, hist>>

\* addFile, line 494: the call is delivered and reads the stored state
AddFileGet(u) ==
    /\ proc[u].pc = "add"
    /\ InputGateOpen(gate)
    /\ gate' = u
    /\ proc' = [proc EXCEPT ![u].pc = "adding", ![u].st = StateGet]
    /\ UnchangedStore /\ UnchangedWorld /\ UnchangedDiscovery
    /\ UNCHANGED hist

\* An addFile that looks at no status
AcceptsAlways(st) == TRUE

\* addFile, line 499: state.status !== 'uploading' throws
AcceptsFiles(st) == st.status = "uploading"

\* addFile, lines 495-506: throw, or push onto the state as read and put it
AddFilePut(u) ==
    /\ proc[u].pc = "adding"
    /\ gate' = Undefined
    /\ IF ~AcceptsFiles(proc[u].st)
       THEN /\ proc' = [proc EXCEPT ![u].pc = "done", ![u].ret = Ret("500")]
            /\ UnchangedStore
            /\ UNCHANGED hist
       ELSE /\ StatePut([proc[u].st EXCEPT !.files = Append(@, proc[u].file)])
            /\ proc' = [proc EXCEPT ![u].pc = "added", ![u].ret = Ret("200")]
            /\ hist' = [hist EXCEPT !.added = @ \cup {proc[u].file.r2_key}]
    /\ UnchangedWorld /\ UnchangedDiscovery

\* ---- POST /files/complete

IndexOf(fs, r2Key) ==
    LET hits == {i \in 1..Len(fs) : fs[i].r2_key = r2Key}
    IN  IF hits = {} THEN 0 ELSE CHOOSE i \in hits : \A j \in hits : i <= j

Parts1 == <<"parts">>
BadParts == <<"bad">>

\* completeFile without its early return
NeverCompleted(file) == FALSE

\* if (file.status === 'completed')
AlreadyCompleted(file) == file.status = "completed"

\* A completeFile that marks the file completed without looking at the
\* multipart parameters
completeFileUnchecked(st, r2Key, uploadId, parts, now) ==
    LET i == IndexOf(st.files, r2Key)
        file == st.files[i]
    IN  IF i = 0
        THEN [throws |-> "File not found in batch", st |-> Undefined, ret |-> Ret("")]
        ELSE IF AlreadyCompleted(file)
        THEN [throws |-> "", st |-> Undefined,
              ret |-> [Ret("200") EXCEPT !.alreadyCompleted = TRUE]]
        ELSE [throws |-> "",
              st |-> [st EXCEPT !.files[i] =
                         [file EXCEPT !.status = "completed", !.completed_at = now]],
              ret |-> [Ret("200") EXCEPT
                          !.needsMultipartComplete = file.upload_type = "multipart"]]

\* completeFile(r2Key, uploadId, parts) on the state st at time now:
\* [throws, st, ret]; st is what is put, Undefined when nothing is put
completeFile(st, r2Key, uploadId, parts, now) ==
    LET i == IndexOf(st.files, r2Key)
        file == st.files[i]
        thrown(message) == [throws |-> message, st |-> Undefined, ret |-> Ret("")]
    IN  IF i = 0 THEN thrown("File not found in batch")
        ELSE IF AlreadyCompleted(file)
        THEN [throws |-> "", st |-> Undefined,
              ret |-> [Ret("200") EXCEPT !.alreadyCompleted = TRUE]]
        ELSE IF file.upload_type = "multipart" /\ (uploadId = Undefined \/ parts = Undefined)
        THEN thrown("Missing upload_id or parts for multipart upload")
        ELSE IF file.upload_type = "multipart" /\ uploadId # file.upload_id
        THEN thrown("upload_id mismatch")
        ELSE IF file.upload_type = "multipart" /\ parts = BadParts
        THEN thrown("Invalid parts format")
        ELSE [throws |-> "",
              st |-> [st EXCEPT !.files[i] =
                         [file EXCEPT !.status = "completed", !.completed_at = now]],
              ret |-> [Ret("200") EXCEPT
                          !.needsMultipartComplete = file.upload_type = "multipart"]]

\* The handler's catch block
ErrorCode(message) ==
    CASE message = "File not found in batch" -> "404"
      [] message = "Batch not found" -> "404"
      [] message \in {"Missing upload_id or parts for multipart upload",
                      "upload_id mismatch", "Invalid parts format"} -> "400"
      [] OTHER -> "500"

\* The handler: the call, then the multipart completion when it is asked for
CompleteFile(u, r2Key, uploadId, parts) ==
    /\ proc[u].pc = "added"
    /\ InputGateOpen(gate)
    /\ LET call == completeFile(StateGet, r2Key, uploadId, parts, clock)
       IN  /\ IF call.st = Undefined THEN UnchangedStore ELSE StatePut(call.st)
           /\ proc' = [proc EXCEPT ![u].ret =
                          IF call.throws # ""
                          THEN [Ret(ErrorCode(call.throws)) EXCEPT !.error = call.throws]
                          ELSE call.ret]
           /\ multipart' = IF call.throws = "" /\ call.ret.needsMultipartComplete
                              /\ uploadId # Undefined /\ parts # Undefined
                           THEN multipart + 1 ELSE multipart
    /\ UnchangedDiscovery
    /\ UNCHANGED <<gate, env, cas, chunker, kv, r2Manifest, clock, hist>>

-----------------------------------------------------------------------------
(* POST /finalize *)

SYNC_DISCOVERY_MAX_DIRS == 50
SYNC_DISCOVERY_MAX_TEXT_FILES == 100

\* A handler that looks at the status only, not at the files
AnswersOnStatusOnly(st) == st.status # "uploading"

\* lines 39-98: what the handler answers at once on the state as read
FinalizeAnswersAtOnce(st) ==
    \/ st.status # "uploading"
    \/ \E i \in 1..Len(st.files) : st.files[i].status # "completed"
    \/ st.files = <<>>

FinalizeGetState(h) ==
    /\ proc[h].pc = "finalize"
    /\ InputGateOpen(gate)
    /\ proc' = [proc EXCEPT ![h] =
                  IF FinalizeAnswersAtOnce(StateGet)
                  THEN [@ EXCEPT !.pc = "done", !.st = StateGet,
                                 !.ret = Ret(IF status \in {"enqueued", "preprocessing", "discovery"}
                                             THEN "200" ELSE "400")]
                  ELSE [@ EXCEPT !.pc = "manifest", !.st = StateGet,
                                 !.manifest = BuildManifest(files)]]
    /\ UnchangedStore /\ UnchangedWorld /\ UnchangedDiscovery
    /\ UNCHANGED <<gate, hist>>

\* A choice that takes the asynchronous path only above the thresholds
useAsyncAbove(st, manifest, limits) ==
    LET textFileCount == Len(SelectSeq(st.files, LAMBDA f : isTextFile(f.file_name)))
        dirCount == Len(manifest.directories)
    IN  dirCount > limits[1] \/ textFileCount > limits[2]

\* lines 155-165; limits is <<SYNC_DISCOVERY_MAX_DIRS, SYNC_DISCOVERY_MAX_TEXT_FILES>>
useAsyncDiscovery(st, manifest, limits) ==
    LET textFileCount == Len(SelectSeq(st.files, LAMBDA f : isTextFile(f.file_name)))
        dirCount == Len(manifest.directories)
    IN  dirCount >= limits[1] \/ textFileCount >= limits[2]

\* startDiscovery(manifest, parentPi)
StartDiscovery(manifest) ==
    /\ disc' = buildDiscoveryTree(manifest)
    /\ status' = "discovery"
    /\ doManifest' = manifest
    /\ alarmSet' = TRUE
    /\ hist' = [hist EXCEPT !.builds = @ + 1]
    /\ UNCHANGED <<files, root_pi>>

\* lines 147-189: the manifest is written to the bucket, then the async path
FinalizeAsync(h) ==
    /\ proc[h].pc = "manifest"
    /\ useAsyncDiscovery(proc[h].st, proc[h].manifest, env.limits)
    /\ InputGateOpen(gate)
    /\ r2Manifest' = proc[h].manifest
    /\ StartDiscovery(proc[h].manifest)
    /\ proc' = [proc EXCEPT ![h].pc = "done", ![h].ret = Ret("200")]
    /\ UNCHANGED <<gate, alarm, env, cas, chunker, kv, entities, queue, multipart, clock>>

PublishedPaths(ds) == SelectSeq(ds.keys, LAMBDA p : ds.nodes[p].published)

\* lines 147-202: the manifest is written to the bucket, then discovery runs
\* inline.  creates: "fail" when the entity store rejects the first create, so
\* that the call throws with nothing created.  A call that never returns
\* leaves the request hanging.
FinalizeSync(h, creates, attached) ==
    /\ proc[h].pc = "manifest"
    /\ ~useAsyncDiscovery(proc[h].st, proc[h].manifest, env.limits)
    /\ r2Manifest' = proc[h].manifest
    /\ LET run == runSyncDiscovery(proc[h].manifest, env.upload, entities, attached)
           fails == creates = "fail"
       IN  /\ entities' = IF fails THEN entities ELSE run.store
           /\ hist' = [hist EXCEPT !.builds = @ + 1,
                                   !.created = IF fails THEN @ ELSE @ \o PublishedPaths(run.ds)]
           /\ proc' = [proc EXCEPT ![h] =
                         IF ~fails /\ ~run.returns THEN [@ EXCEPT !.pc = "hung"]
                         ELSE IF fails \/ Root \notin DOMAIN run.ds.node_pis
                         THEN [@ EXCEPT !.pc = "send"]
                         ELSE [@ EXCEPT !.pc = "set", !.result = DiscoveryResultOf(run.ds)]]
    /\ UnchangedStore
    /\ UNCHANGED <<doManifest, alarmSet, gate, alarm, env, cas, chunker, kv, queue, multipart, clock>>

\* setDiscoveryResults(results)
setDiscoveryResults(results) ==
    [nodes |-> << >>,
     keys |-> <<>>,
     directories_total |-> Cardinality(DOMAIN results.node_pis),
     directories_published |-> Cardinality(DOMAIN results.node_pis),
     node_pis |-> results.node_pis,
     node_tips |-> results.node_tips,
     node_versions |-> results.node_versions,
     phase |-> "DONE",
     current_depth |-> 0,
     files_total |-> 0,
     files_uploaded |-> 0,
     error |-> Undefined,
     retry_count |-> 0]

FinalizeSetResults(h) ==
    /\ proc[h].pc = "set"
    /\ InputGateOpen(gate)
    /\ root_pi' = proc[h].result.root_pi
    /\ disc' = setDiscoveryResults(proc[h].result)
    /\ proc' = [proc EXCEPT ![h].pc = "send"]
    /\ UNCHANGED <<status, files, gate, hist>>
    /\ UnchangedWorld /\ UnchangedDiscovery

\* lines 205-224
SyncQueueMessageOf(st, result) ==
    [total_files |-> Len(st.files),
     root_pi |-> IF result = Undefined THEN Undefined ELSE result.root_pi,
     node_pis |-> IF result = Undefined THEN Undefined ELSE result.node_pis,
     node_tips |-> IF result = Undefined THEN Undefined ELSE result.node_tips,
     node_versions |-> IF result = Undefined THEN Undefined ELSE result.node_versions]

\* line 242; a send that throws is answered 500 by the outer catch
FinalizeSend(h, ok) ==
    /\ proc[h].pc = "send"
    /\ queue' = IF ok THEN Append(queue, SyncQueueMessageOf(proc[h].st, proc[h].result))
                ELSE queue
    /\ proc' = [proc EXCEPT ![h] = IF ok THEN [@ EXCEPT !.pc = "status"]
                                   ELSE [@ EXCEPT !.pc = "done", !.ret = Ret("500")]]
    /\ UnchangedStore /\ UnchangedWorld
    /\ UNCHANGED <<doManifest, alarmSet, gate, alarm, entities, hist>>

\* updateStatus('preprocessing', ...), line 245
FinalizeUpdateStatus(h) ==
    /\ proc[h].pc = "status"
    /\ InputGateOpen(gate)
    /\ status' = "preprocessing"
    /\ proc' = [proc EXCEPT ![h].pc = "done", ![h].ret = Ret("200")]
    /\ UNCHANGED <<files, disc, root_pi, gate, hist>>
    /\ UnchangedWorld /\ UnchangedDiscovery

MaxClock == 2

\* new Date() reads a later time
Tick ==
    /\ clock < MaxClock
    /\ clock' = clock + 1
    /\ UnchangedStore /\ UnchangedDiscovery
    /\ UNCHANGED <<gate, proc, env, cas, chunker, kv, r2Manifest, multipart, hist>>

-----------------------------------------------------------------------------
(* IPFSWrapperClient.executeWithCASRetry: the loop every mutating call of    *)
(* the entity store runs in.  cas.tip is the entity's tip in the store,      *)
(* which other writers move; cas.log has one entry per finished attempt.     *)

DEFAULT_MAX_RETRIES == 5

NotCalled == [pc |-> "none"]

\* The call as it enters the loop: for (let attempt = 0; ...
CasCall(operationName, pi, maxRetries) ==
    [pc |-> IF 0 < maxRetries THEN "fetch" ELSE "thrown",
     operationName |-> operationName, pi |-> pi, maxRetries |-> maxRetries,
     attempt |-> 0, currentTip |-> 0, firstTip |-> 0, tip |-> 1, writes |-> 0,
     log |-> <<>>, waits |-> 0, value |-> Undefined, error |-> Undefined]

\* The error a caller sees had the loop let the attempt's own error through
InnerError(c) == [operationName |-> Undefined, pi |-> Undefined, retries |-> c.maxRetries]

\* `${operationName} failed for ${pi} after ${maxRetries} retries: ...`
TerminalError(c) == [operationName |-> c.operationName, pi |-> c.pi, retries |-> c.maxRetries]

\* A tip fetched once, before the first attempt, and sent with every attempt
StaleTip(c) == c.firstTip

\* operation(currentTip): the expect_tip of the request
ExpectTip(c) == c.currentTip

LogEntry(c, sent, outcome) ==
    [attempt |-> c.attempt, fetched |-> IF sent = Undefined THEN Undefined ELSE <<c.currentTip>>,
     sent |-> sent, outcome |-> outcome]

\* continue: the next iteration, after the backoff delay when waited
NextAttempt(c, entry, waited) ==
    IF c.attempt + 1 < c.maxRetries
    THEN [c EXCEPT !.pc = "fetch", !.attempt = @ + 1, !.log = Append(@, entry),
                   !.waits = IF waited THEN @ + 1 ELSE @]
    ELSE [c EXCEPT !.pc = "thrown", !.log = Append(@, entry), !.error = TerminalError(c)]

\* catch (error): the last attempt throws the terminal error; an earlier one
\* goes on, after a delay unless the message mentions a CAS conflict
CasCatch(c, entry, includesConflict) ==
    IF c.attempt = c.maxRetries - 1
    THEN [c EXCEPT !.pc = "thrown", !.log = Append(@, entry), !.error = TerminalError(c)]
    ELSE NextAttempt(c, entry, ~includesConflict)

\* response.status === 409
CasConflict(c, entry) ==
    IF c.attempt < c.maxRetries - 1
    THEN NextAttempt(c, entry, TRUE)
    ELSE CasCatch(c, entry, TRUE)

UnchangedBatch ==
    UNCHANGED <<status, files, disc, root_pi, doManifest, alarmSet, gate, proc, alarm,
                env, entities, queue, r2Manifest, multipart, clock, chunker, kv, hist>>

\* const currentTip = await this.getEntityTip(pi)
CasGetEntityTip(ok) ==
    /\ cas.pc = "fetch"
    /\ cas' = IF ok
              THEN [cas EXCEPT !.pc = "send", !.currentTip = cas.tip,
                               !.firstTip = IF cas.attempt = 0 THEN cas.tip ELSE @]
              ELSE CasCatch(cas, LogEntry(cas, Undefined, "unresolved"), FALSE)
    /\ UnchangedBatch

\* const response = await operation(currentTip).  The store applies the
\* mutation when expect_tip is its tip and answers 409 otherwise ("store");
\* or it answers another error status, whose text may mention a CAS conflict;
\* or the fetch throws.
CasOperation(answer) ==
    /\ cas.pc = "send"
    /\ LET sent == <<ExpectTip(cas)>>
       IN  cas' =
             CASE answer = "store" /\ sent = <<cas.tip>> ->
                    [cas EXCEPT !.pc = "returned", !.tip = @ + 1,
                                !.value = <<"tip", cas.tip + 1>>,
                                !.log = Append(@, LogEntry(cas, sent, "ok"))]
               [] answer = "store" /\ sent # <<cas.tip>> ->
                    CasConflict(cas, LogEntry(cas, sent, "409"))
               [] answer = "error" ->
                    CasCatch(cas, LogEntry(cas, sent, "error"), FALSE)
               [] answer = "error-conflict" ->
                    CasCatch(cas, LogEntry(cas, sent, "error"), TRUE)
               [] OTHER ->
                    CasCatch(cas, LogEntry(cas, sent, "threw"), FALSE)
    /\ UnchangedBatch

MaxWrites == 2

\* Another writer appends a version to the entity while the call is running
CasOtherWriter ==
    /\ cas.pc \in {"fetch", "send"}
    /\ cas.writes < MaxWrites
    /\ cas' = [cas EXCEPT !.tip = @ + 1, !.writes = @ + 1]
    /\ UnchangedBatch

-----------------------------------------------------------------------------
(* The batches of the model *)

File(key, logical_path, name, upload_type) ==
    [r2_key |-> key, file_name |-> name, logical_path |-> logical_path,
     upload_type |-> upload_type,
     upload_id |-> IF upload_type = "multipart" THEN <<"upload", key>> ELSE Undefined,
     status |-> "uploading", completed_at |-> 0]

FileX == File("k1", <<"", "a", "b", "x">>, <<"x", "txt">>, "simple")
FileY == File("k2", <<"", "a", "y">>, <<"y", "md">>, "multipart")
FileZ == File("k3", <<"", "z">>, <<"z", "TXT">>, "simple")
FileP == File("k4", <<"", "c", "p">>, <<"p", "png">>, "simple")
FileQ == File("k5", <<"", "c", "q">>, <<"q", "json">>, "multipart")
FileR == File("k6", <<"", "r">>, <<"r", "csv">>, "simple")
FileS == File("k7", <<"", "a", "s">>, <<"s", "png">>, "simple")

Keys == {"k1", "k2", "k3", "k4", "k5", "k6", "k7"}
Outcomes == {"ok", "fail", "absent"}

\* The file the n-th client uploads
Uploads == <<FileX, FileY, FileZ, FileP, FileQ, FileR, FileS>>

Uploaded(f) == [f EXCEPT !.status = "completed", !.completed_at = 1]

\* Batches whose uploads are complete: /, /a, /a/b with one text file each; a
\* leaf whose ancestors the tree builder adds, beside a directory of binaries;
\* binaries only
FileLists == {<<Uploaded(FileX), Uploaded(FileY), Uploaded(FileZ)>>,
              <<Uploaded(FileX), Uploaded(FileP)>>,
              <<Uploaded(FileP)>>}

\* The smallest step batch size the steps run with, and the thresholds of the
\* asynchronous path scaled to the batches above
SmallBatch == 1
SmallLimit == 1

StepBatchSizes == {<<SmallBatch, SmallBatch>>,
                   <<DISCOVERY_UPLOAD_BATCH_SIZE, DISCOVERY_ENTITY_BATCH_SIZE>>}

TextKeys(fs) == {fs[i].r2_key : i \in {j \in 1..Len(fs) : isTextFile(fs[j].file_name)}}

\* The deployment: what the bucket and the content upload answer per key (only
\* the answers for text files are ever read), the step batch sizes, the
\* thresholds of the asynchronous path
Envs(fs, outcomes, sizes, limits) ==
    {[upload |-> [k \in Keys |-> IF k \in TextKeys(fs) THEN u[k] ELSE "ok"],
      batch |-> b, limits |-> limits] :
        u \in [TextKeys(fs) -> outcomes], b \in sizes}

HistInit == [builds |-> 0, created |-> <<>>, added |-> {}, delay |-> 0]

Finalizers(n) == {<<"f", i>> : i \in 1..n}
Clients(n) == {<<"u", i>> : i \in 1..n}
UploadOf(u) == Uploads[u[2]]

\* ---- The KV namespace (lib/batch-state.ts)

\* The requests that complete a file through updateBatchState, each its own
NumUpdaters == 2
Updaters == 1..NumUpdaters

KV_MAX_RETRIES == 3

\* The entry under batch:<id> as saveBatchState wrote it, every file still
\* uploading, and no call begun
KvInit ==
    [stored |-> [state |-> [f \in Updaters |-> "uploading"], version |-> 0],
     call |-> [u \in Updaters |->
                  [pc |-> "load", attempt |-> 1, current |-> Undefined]]]

\* No text is being chunked
NotChunking == [pc |-> "none"]

\* The state after initBatch, with the requests and calls that will arrive
InitAll(fs, handlers, envs, calls, texts) ==
    /\ status = "uploading"
    /\ files \in fs
    /\ disc = Undefined
    /\ root_pi = Undefined
    /\ doManifest = Undefined
    /\ alarmSet = FALSE
    /\ gate = Undefined
    /\ proc = handlers
    /\ alarm = AlarmIdle
    /\ env \in envs
    /\ entities = <<>>
    /\ queue = <<>>
    /\ r2Manifest = Undefined
    /\ multipart = 0
    /\ clock = 1
    /\ cas \in calls
    /\ chunker \in texts
    /\ kv = KvInit
    /\ hist = HistInit

\* No text is chunked
InitBatch(fs, handlers, envs, calls) == InitAll(fs, handlers, envs, calls, {NotChunking})

\* No entity-store call is followed through its retry loop
InitWith(fs, handlers, envs) == InitBatch(fs, handlers, envs, {NotCalled})

-----------------------------------------------------------------------------
(* Asynchronous discovery of a finalized batch *)

InitDiscovery ==
    /\ files \in FileLists
    /\ InitWith({files}, [h \in Finalizers(1) |-> Handler("finalize")],
                Envs(files, Outcomes, StepBatchSizes, <<SmallLimit, SmallLimit>>))

NextDiscovery ==
    \/ \E h \in DOMAIN proc : FinalizeGetState(h)
    \/ \E h \in DOMAIN proc : FinalizeAsync(h)
    \/ AlarmStep
    \/ Orphans

SpecDiscovery == InitDiscovery /\ [][NextDiscovery]_vars

\* A scheduled trigger is delivered and the I/O a step awaits answers
SpecDiscoveryFair ==
    /\ SpecDiscovery
    /\ WF_vars(AlarmStep)
    /\ WF_vars(Orphans)

EntityOf(store, pi) == store[CHOOSE i \in 1..Len(store) : store[i].pi = pi]

ChildrenOf(p) == Range(disc.nodes[p].children_paths)

\* C3: the entity of a directory is created only after the entities of all
\* its children_paths, and in every stored or in-memory discovery state a
\* published node has all its children published, whatever the batch size.
C3_BottomUp ==
    /\ \A i \in 1..Len(hist.created) :
           \A c \in ChildrenOf(hist.created[i]) :
               \E j \in 1..(i - 1) : hist.created[j] = c
    /\ disc # Undefined =>
           \A p \in DOMAIN disc.nodes :
               disc.nodes[p].published => allChildrenPublished(disc.nodes[p], disc)
    /\ alarm.pc # "idle" =>
           \A p \in DOMAIN Mem.nodes :
               Mem.nodes[p].published => allChildrenPublished(Mem.nodes[p], Mem)

\* /, /a and /a/b are all published, one directory per step
C3_TreePublished ==
    /\ env.batch = <<SmallBatch, SmallBatch>>
    /\ disc # Undefined
    /\ {Root, <<"", "a">>, <<"", "a", "b">>} \subseteq DOMAIN disc.node_pis
    /\ Len(hist.created) >= 3

\* C4: once asynchronous discovery has started, the batch eventually leaves
\* status 'discovery' for 'preprocessing' or 'failed'.
C4_DiscoveryTerminates ==
    (status = "discovery") ~> (status \in {"preprocessing", "failed"})

Resting == alarm.pc = "idle" /\ ~alarmSet

\* C5: a batch that rests in 'preprocessing' after asynchronous discovery has
\* had exactly one job message sent.
C5_MessageSent ==
    (status = "preprocessing" /\ Resting) => Len(queue) = 1

\* What a run produced, whatever ids the entity store handed out: per path
\* the components of its entity, the paths of its children, tip and version
ShapeOf(ds, store) ==
    [p \in DOMAIN ds.node_pis |->
        LET entity == EntityOf(store, ds.node_pis[p])
        IN  [components |-> entity.components,
             children |-> {q \in DOMAIN ds.node_pis : Includes(entity.children_pi, ds.node_pis[q])},
             tip_of_pi |-> ds.node_tips[p] = TipOf(ds.node_pis[p]),
             version |-> ds.node_versions[p]]]

\* The run from the start, every batch whole and nothing persisted in between
Uninterrupted == runSyncDiscovery(doManifest, env.upload, <<>>, TRUE)

\* C6: a discovery that was persisted after every step and resumed from the
\* stored state at the next one ends with the same root and the same maps from
\* path to entity as the uninterrupted run on the same manifest.
C6_ResumedEqualsUninterrupted ==
    (disc # Undefined /\ disc.phase = "DONE") =>
        /\ Uninterrupted.returns
        /\ ShapeOf(disc, entities) = ShapeOf(Uninterrupted.ds, Uninterrupted.store)
        /\ (Root \in DOMAIN disc.node_pis) /\ root_pi = disc.node_pis[Root]

\* A three-directory batch discovered one item per step, with a retry
C6_ResumedManyTimes ==
    /\ disc # Undefined /\ disc.phase = "DONE"
    /\ env.batch = <<SmallBatch, SmallBatch>>
    /\ disc.retry_count > 0
    /\ disc.files_uploaded = 3
    /\ Cardinality(DOMAIN disc.node_pis) = 3

\* C10: when discovery is DONE every non-root directory's entity has parent_pi
\* equal to the id of its parent directory's entity.
C10_ParentLinks ==
    (disc # Undefined /\ disc.phase = "DONE") =>
        \A p \in DOMAIN disc.node_pis \ {Root} :
            EntityOf(entities, disc.node_pis[p]).parent_pi = disc.node_pis[ParentPathOf(p)]

\* /, /a, /a/b: the forward links of the example are in place
C10_TreeDone ==
    /\ disc # Undefined /\ disc.phase = "DONE"
    /\ {Root, <<"", "a">>, <<"", "a", "b">>} = DOMAIN disc.node_pis
    /\ EntityOf(entities, disc.node_pis[<<"", "a">>]).children_pi = <<disc.node_pis[<<"", "a", "b">>]>>
    /\ EntityOf(entities, disc.node_pis[<<"", "a", "b">>]).children_pi = <<>>

\* C11: the children_pi of every create request holds, in order, the entity
\* id of every path in the node's children_paths: none is missing, each is
\* the id of an entity created earlier for that child.
C11_ForwardLinksComplete ==
    \A k \in 1..Len(entities) :
        LET cps == disc.nodes[hist.created[k]].children_paths
            sent == entities[k].children_pi
        IN  /\ Len(sent) = Len(cps)
            /\ \A i \in 1..Len(cps) :
                   \E j \in 1..(k - 1) : entities[j].pi = sent[i] /\ hist.created[j] = cps[i]

\* A directory with a child was created in a run that had a create rejected
C11_ParentCreatedAfterRetry ==
    /\ disc # Undefined /\ disc.retry_count > 0
    /\ \E k \in 1..Len(entities) :
           /\ hist.created[k] = <<"", "a">>
           /\ entities[k].children_pi # <<>>

\* C13: once the stored phase is DONE or ERROR no field of the discovery
\* state changes any more, and a batch whose discovery is DONE is never
\* marked failed.
C13_TerminalPhases ==
    [][(disc # Undefined /\ disc.phase \in {"DONE", "ERROR"})
          => /\ disc' = disc
             /\ (disc.phase = "DONE" => status' # "failed")]_vars

\* A discovery that was stored as DONE, with its root, and is now failed
C13_DoneTurnedError ==
    /\ disc # Undefined /\ disc.phase = "ERROR"
    /\ status = "failed"
    /\ root_pi # Undefined

\* A step of alarm() ends in the catch block: it was awaiting a create, the
\* attach or the queue, and returns with nothing created and nothing sent
Thrown ==
    /\ alarm.pc \in {"publishing", "attaching", "sending"}
    /\ alarm'.pc = "idle"
    /\ entities' = entities
    /\ queue' = queue

\* C17: a step that throws adds one to retry_count and records the error;
\* below 5 failures the alarm is set again after a delay between 1 s and 30 s
\* that doubles from one failure to the next and the batch goes on; the 5th
\* failure marks the batch failed, the phase ERROR, and sets no alarm.  The
\* counter changes in no other way.
C17_RetryBudget ==
    [][/\ Thrown =>
             LET count == disc.retry_count + 1
             IN  /\ disc'.retry_count = count
                 /\ disc'.error # Undefined
                 /\ IF count < 5
                    THEN /\ alarmSet'
                         /\ status' = status
                         /\ hist'.delay >= 1000 /\ hist'.delay <= 30000
                         /\ hist.delay > 0 =>
                                hist'.delay = IF 2 * hist.delay < 30000
                                              THEN 2 * hist.delay ELSE 30000
                    ELSE /\ status' = "failed"
                         /\ disc'.phase = "ERROR"
                         /\ ~alarmSet'
       /\ (disc # Undefined /\ disc' # Undefined
              /\ disc'.retry_count # disc.retry_count) => Thrown]_vars

\* The fifth failure: the batch is failed and rests
C17_FailedAfterFiveFailures ==
    /\ status = "failed"
    /\ disc # Undefined /\ disc.retry_count = 5 /\ disc.phase = "ERROR"
    /\ Resting

-----------------------------------------------------------------------------
(* Asynchronous discovery while the entity store and the queue answer every *)
(* call: only the blob reads and content uploads fail or find nothing.      *)

AlarmStepStoreUp ==
    \/ AlarmStepEmpty
    \/ AlarmStepBegin
    \/ AlarmRelationships
    \/ \E item \in alarm.inflight : AlarmUploadDone(item)
    \/ \E item \in alarm.inflight : AlarmCreateDone(item, TRUE)
    \/ AlarmAttachDone(TRUE)
    \/ AlarmSendDone(TRUE)

NextStoreUp ==
    \/ \E h \in DOMAIN proc : FinalizeGetState(h)
    \/ \E h \in DOMAIN proc : FinalizeAsync(h)
    \/ AlarmStepStoreUp

\* A scheduled trigger is delivered and the I/O a step awaits answers
SpecStoreUp ==
    /\ InitDiscovery
    /\ [][NextStoreUp]_vars
    /\ WF_vars(AlarmStepStoreUp)

\* The text files of the stored tree, as <<path, index>>
TextFileItems(ds) ==
    UNION {{<<p, i>> : i \in 1..Len(ds.nodes[p].text_files)} : p \in DOMAIN ds.nodes}

TextFileAt(ds, item) == ds.nodes[item[1]].text_files[item[2]]

\* What a failing upload leaves in the stored state and in the entities
FailedUploadsSkipped ==
    disc # Undefined =>
        /\ \A item \in TextFileItems(disc) :
               env.upload[TextFileAt(disc, item).r2_key] = "fail"
                   => TextFileAt(disc, item).cid \in {Undefined, EmptyCid}
        /\ disc.files_uploaded =
               Cardinality({item \in TextFileItems(disc) :
                               TextFileAt(disc, item).cid # Undefined})
        /\ disc.retry_count = 0
        /\ \A k \in 1..Len(entities) : \A c \in entities[k].components :
               c[2] # EmptyCid /\ env.upload[c[2][2]] = "ok"

NoBlobAbsent == \A k \in TextKeys(files) : env.upload[k] # "absent"

\* C14: a text file whose upload always fails gets the empty content id and
\* is counted in files_uploaded, no step retry is counted for it, it is in
\* no entity's components, and the discovery still reaches DONE.
C14_UploadFailureTolerated ==
    /\ []FailedUploadsSkipped
    /\ (status = "discovery" /\ NoBlobAbsent) ~> (disc # Undefined /\ disc.phase = "DONE")

\* DONE with one file skipped for its failed upload and another uploaded
C14_DoneWithFailedUpload ==
    /\ disc # Undefined /\ disc.phase = "DONE"
    /\ \E item \in TextFileItems(disc) : TextFileAt(disc, item).cid = EmptyCid
    /\ \E k \in 1..Len(entities) : entities[k].components # {}
    /\ disc.retry_count = 0

\* C15: a text file whose blob the bucket does not hold is consumed by the
\* step that selected it: no file of a finished upload step is selected
\* again, and the UPLOADING phase completes.
C15_AbsentBlobConsumed ==
    /\ [][(alarm.pc = "uploading" /\ alarm'.pc = "idle")
              => Selected(alarm.read.disc) \cap Range(getFilesNeedingUpload(disc')) = {}]_vars
    /\ (status = "discovery") ~> (disc # Undefined /\ disc.phase # "UPLOADING")

-----------------------------------------------------------------------------
(* One mutating entity-store call, followed through its retry loop *)

SmallRetries == 2

Operations == {"appendVersion", "updateRelations", "addChildToParent"}

\* The calls: the default options, and callers' smaller budgets
CasCalls ==
    {CasCall(operationName, ParentPi, maxRetries) :
        operationName \in Operations,
        maxRetries \in {1, SmallRetries, DEFAULT_MAX_RETRIES}}

InitCAS ==
    InitBatch({<<>>}, <<>>,
              Envs(<<>>, {"ok"}, {<<SmallBatch, SmallBatch>>},
                   <<SYNC_DISCOVERY_MAX_DIRS, SYNC_DISCOVERY_MAX_TEXT_FILES>>),
              CasCalls)

NextCAS ==
    \/ \E ok \in BOOLEAN : CasGetEntityTip(ok)
    \/ \E answer \in {"store", "error", "error-conflict", "threw"} : CasOperation(answer)
    \/ CasOtherWriter

SpecCAS == InitCAS /\ [][NextCAS]_vars

Failed(entry) == entry.outcome # "ok"

\* C18: the call makes at most maxRetries attempts, numbered in order; every
\* mutation it sends carries as expect_tip the tip fetched in that same
\* attempt; a conflict or error before the last attempt is followed by
\* another attempt (the call throws only after the last one), and the first
\* successful response ends the loop with its value.
C18_CASRetry ==
    cas.pc # "none" =>
        /\ Len(cas.log) <= cas.maxRetries
        /\ \A i \in 1..Len(cas.log) :
               /\ cas.log[i].attempt = i - 1
               /\ cas.log[i].sent # Undefined => cas.log[i].sent = cas.log[i].fetched
               /\ (~Failed(cas.log[i])) => (i = Len(cas.log) /\ cas.pc = "returned")
        /\ cas.pc \in {"fetch", "send"} => cas.attempt = Len(cas.log)
        /\ cas.pc = "thrown" => Len(cas.log) = cas.maxRetries
        /\ cas.pc = "returned" =>
               /\ ~Failed(Last(cas.log))
               /\ cas.value = <<"tip", cas.tip>>

\* A call with the default budget that succeeded at its third attempt or
\* later, after a 409 on a tip that another writer had moved
C18_SucceededAfterConflict ==
    /\ cas.pc = "returned"
    /\ cas.maxRetries = DEFAULT_MAX_RETRIES
    /\ Len(cas.log) >= 3
    /\ \E i \in 1..Len(cas.log) : cas.log[i].outcome = "409"

\* C19: when every attempt of the call has failed, the call has thrown the
\* terminal error that names the operation and the entity id, after exactly
\* maxRetries attempts, and has returned no value; it throws in no other case.
C19_TerminalError ==
    cas.pc # "none" =>
        /\ (Len(cas.log) = cas.maxRetries /\ \A i \in 1..Len(cas.log) : Failed(cas.log[i]))
               => /\ cas.pc = "thrown"
                  /\ cas.error = [operationName |-> cas.operationName, pi |-> cas.pi,
                                   retries |-> cas.maxRetries]
                  /\ cas.value = Undefined
        /\ cas.pc = "thrown"
               => /\ Len(cas.log) = cas.maxRetries
                  /\ \A i \in 1..Len(cas.log) : Failed(cas.log[i])
        /\ cas.pc # "thrown" => cas.error = Undefined

\* Five attempts, conflicts and other errors among them, all failed
C19_ExhaustedDefaultBudget ==
    /\ cas.pc = "thrown"
    /\ cas.maxRetries = DEFAULT_MAX_RETRIES
    /\ \E i \in 1..Len(cas.log) : cas.log[i].outcome = "409"
    /\ \E i \in 1..Len(cas.log) : cas.log[i].outcome = "error"
    /\ \E i \in 1..Len(cas.log) : cas.log[i].outcome = "unresolved"

-----------------------------------------------------------------------------
(* Two finalize requests for the same batch, discovered asynchronously *)

InitRace ==
    /\ files \in FileLists
    /\ InitWith({files}, [h \in Finalizers(2) |-> Handler("finalize")],
                Envs(files, Outcomes, {<<SmallBatch, SmallBatch>>},
                     <<SmallLimit, SmallLimit>>))

\* One create per step: no create is left in flight by a rejected batch
NextRace ==
    \/ \E h \in DOMAIN proc : FinalizeGetState(h)
    \/ \E h \in DOMAIN proc : FinalizeAsync(h)
    \/ AlarmStep

SpecRace == InitRace /\ [][NextRace]_vars

\* The position of a phase in UPLOADING, CHUNKING, PUBLISHING, RELATIONSHIPS,
\* DONE; ERROR, which the failure handler enters from any phase, comes last
PhaseRank(phase) ==
    CASE phase = "UPLOADING" -> 1
      [] phase = "CHUNKING" -> 2
      [] phase = "PUBLISHING" -> 3
      [] phase = "RELATIONSHIPS" -> 4
      [] phase = "DONE" -> 5
      [] OTHER -> 6

\* C12: the phase of the stored discovery state never returns to an earlier
\* phase, whatever steps, retries and coordinator operations run on the batch.
C12_PhaseForward ==
    [][(disc # Undefined /\ disc' # Undefined)
          => PhaseRank(disc.phase) <= PhaseRank(disc'.phase)]_vars

\* A second startDiscovery has been served after the phase left UPLOADING
C12_RestartedWhilePublishing ==
    /\ disc # Undefined /\ disc.phase = "UPLOADING"
    /\ entities # <<>>
    /\ \A h \in DOMAIN proc : proc[h].pc = "done"

\* C16: a text file whose content id is set in the stored discovery state,
\* to a real id or to the empty one, keeps a content id in every later stored
\* state and is in no later step's selection of files to upload.
C16_ContentIdKept ==
    [][(disc # Undefined /\ disc' # Undefined)
          => \A item \in TextFileItems(disc) :
                 TextFileAt(disc, item).cid # Undefined
                     => /\ TextFileAt(disc', item).cid # Undefined
                        /\ (alarm'.pc = "uploading" => item \notin alarm'.inflight)]_vars

\* C2: while a discovery step is between its read of the stored state and
\* its write-back, no other event changes the stored state, and what the step
\* overwrites when it persists is the state it read.
C2_StepIsolated ==
    [][/\ (alarm.pc # "idle" /\ alarm' = alarm) => StateGet' = StateGet
       /\ (alarm.pc # "idle" /\ alarm' # alarm /\ StateGet' # StateGet)
              => StateGet = alarm.read]_vars

\* A step persisted its result while a second startDiscovery had been called
C2_StepPersistedAfterRestart ==
    /\ hist.builds = 2
    /\ alarm.pc = "idle"
    /\ disc # Undefined /\ disc.directories_published > 0

-----------------------------------------------------------------------------
(* Clients uploading to a batch *)

NumCalls == 5

InitAddFile ==
    InitWith({<<>>}, [u \in Clients(NumCalls) |-> Handler("start")],
             Envs(<<>>, Outcomes, {<<SmallBatch, SmallBatch>>},
                  <<SYNC_DISCOVERY_MAX_DIRS, SYNC_DISCOVERY_MAX_TEXT_FILES>>))

NextAddFile ==
    \/ \E u \in DOMAIN proc : StartFileGetState(u, UploadOf(u))
    \/ \E u \in DOMAIN proc : AddFileGet(u)
    \/ \E u \in DOMAIN proc : AddFilePut(u)

SpecAddFile == InitAddFile /\ [][NextAddFile]_vars

AddFileReturned == {u \in DOMAIN proc : proc[u].pc = "added"}

\* C1: whatever the interleaving of the concurrent addFile calls, every call
\* that returned has its file in the stored list, and the list has exactly one
\* entry per returned call: NumCalls entries once all have returned.
C1_NoLostAdd ==
    /\ \A u \in AddFileReturned :
           \E i \in 1..Len(files) : files[i].r2_key = UploadOf(u).r2_key
    /\ Len(files) = Cardinality(AddFileReturned)

\* All the calls were in flight together and all have returned
C1_AllAdded ==
    /\ AddFileReturned = Clients(NumCalls)
    /\ Len(files) = NumCalls

\* What a client may send for a key: nothing but the key, the file's upload
\* id with its parts, another upload id, parts that are no parts
CompleteArgsOf(r2_key) ==
    {[r2_key |-> r2_key, upload_id |-> Undefined, parts |-> Undefined],
     [r2_key |-> r2_key, upload_id |-> <<"upload", r2_key>>, parts |-> Parts1],
     [r2_key |-> r2_key, upload_id |-> <<"upload", "other">>, parts |-> Parts1],
     [r2_key |-> r2_key, upload_id |-> <<"upload", r2_key>>, parts |-> BadParts]}

\* A client completes the file it started, or names a key the batch never saw
CompleteArgs(u) ==
    CompleteArgsOf(UploadOf(u).r2_key)
        \cup {[r2_key |-> "k0", upload_id |-> Undefined, parts |-> Undefined]}

NumClients == 2

InitUpload ==
    InitWith({<<>>}, [u \in Clients(NumClients) |-> Handler("start")],
             Envs(<<>>, Outcomes, {<<SmallBatch, SmallBatch>>},
                  <<SYNC_DISCOVERY_MAX_DIRS, SYNC_DISCOVERY_MAX_TEXT_FILES>>))

NextUpload ==
    \/ NextAddFile
    \/ \E u \in DOMAIN proc : \E a \in CompleteArgs(u) :
           CompleteFile(u, a.r2_key, a.upload_id, a.parts)
    \/ Tick

SpecUpload == InitUpload /\ [][NextUpload]_vars

IsCompleted(r2Key) ==
    \E i \in 1..Len(files) : files[i].r2_key = r2Key /\ files[i].status = "completed"

\* C9: a completeFile call for a file that is already completed returns
\* success with alreadyCompleted, leaves the stored state (completed_at
\* included) as it was and requests no multipart completion.
C9_CompleteFileIdempotent ==
    [][\A u \in DOMAIN proc : \A a \in CompleteArgs(u) :
          (IsCompleted(a.r2_key) /\ CompleteFile(u, a.r2_key, a.upload_id, a.parts))
              => /\ StateGet' = StateGet
                 /\ multipart' = multipart
                 /\ proc'[u].ret.code = "200"
                 /\ proc'[u].ret.alreadyCompleted
                 /\ ~proc'[u].ret.needsMultipartComplete]_vars

\* A multipart file was completed at an earlier time, its completion was
\* requested once, and a second call has answered alreadyCompleted
C9_CompletedTwice ==
    \E u \in DOMAIN proc :
        /\ proc[u].ret.alreadyCompleted
        /\ \E i \in 1..Len(files) :
               /\ files[i].r2_key = UploadOf(u).r2_key
               /\ files[i].upload_type = "multipart"
               /\ files[i].completed_at < clock
        /\ multipart = 1

-----------------------------------------------------------------------------
(* The batch from its creation: clients upload and complete their files and  *)
(* two finalize requests arrive; the batch is small, so discovery runs       *)
(* inside the finalize request.                                              *)

Init ==
    InitWith({<<>>},
             [h \in Clients(NumClients) \cup Finalizers(2) |->
                 Handler(IF h \in Clients(NumClients) THEN "start" ELSE "finalize")],
             Envs(SubSeq(Uploads, 1, NumClients), {"ok"}, {<<SmallBatch, SmallBatch>>},
                  <<SYNC_DISCOVERY_MAX_DIRS, SYNC_DISCOVERY_MAX_TEXT_FILES>>))

Next ==
    \/ NextAddFile
    \/ \E u \in DOMAIN proc :
           CompleteFile(u, UploadOf(u).r2_key, UploadOf(u).upload_id, Parts1)
    \/ \E h \in DOMAIN proc : FinalizeGetState(h)
    \/ \E h \in DOMAIN proc, creates \in {"ok", "fail"}, attached \in BOOLEAN :
           FinalizeSync(h, creates, attached)
    \/ \E h \in DOMAIN proc : FinalizeSetResults(h)
    \/ \E h \in DOMAIN proc, ok \in BOOLEAN : FinalizeSend(h, ok)
    \/ \E h \in DOMAIN proc : FinalizeUpdateStatus(h)

Spec == Init /\ [][Next]_vars

\* A batch with one file completed: more files are being started while
\* one finalize request runs discovery inside the request
InitClosing ==
    InitWith({<<Uploaded(FileP)>>},
             [h \in Clients(NumClients) \cup Finalizers(1) |->
                 Handler(IF h \in Clients(NumClients) THEN "start" ELSE "finalize")],
             Envs(<<FileP>>, {"ok"}, {<<SmallBatch, SmallBatch>>},
                  <<SYNC_DISCOVERY_MAX_DIRS, SYNC_DISCOVERY_MAX_TEXT_FILES>>))

NextClosing ==
    \/ NextAddFile
    \/ \E h \in DOMAIN proc : FinalizeGetState(h)
    \/ \E h \in DOMAIN proc, creates \in {"ok", "fail"}, attached \in BOOLEAN :
           FinalizeSync(h, creates, attached)
    \/ \E h \in DOMAIN proc : FinalizeSetResults(h)
    \/ \E h \in DOMAIN proc, ok \in BOOLEAN : FinalizeSend(h, ok)
    \/ \E h \in DOMAIN proc : FinalizeUpdateStatus(h)

SpecClosing == InitClosing /\ [][NextClosing]_vars

\* C20: an addFile call served while the batch is not in 'uploading' status
\* ends in an error and leaves the stored state, the file list included, as
\* it was; one served while the batch is uploading appends its file.
C20_AddFileRejected ==
    [][\A u \in DOMAIN proc :
          (proc[u].pc = "adding" /\ proc'[u].pc # "adding")
              => IF status # "uploading"
                 THEN /\ proc'[u].pc = "done"
                      /\ proc'[u].ret.code # "200"
                      /\ StateGet' = StateGet
                      /\ hist'.added = hist.added
                 ELSE /\ proc'[u].pc = "added"
                      /\ files' = Append(files, proc[u].file)
                      /\ status' = status]_vars

\* A start-file request passed the handler's own status check, finalize moved
\* the batch on, and the request's addFile was then rejected
C20_RejectedAfterFinalize ==
    \E u \in DOMAIN proc :
        /\ proc[u].pc = "done" /\ proc[u].file # Undefined
        /\ proc[u].ret.code = "500"
        /\ status = "preprocessing"

NoDuplicates(seq) == \A i, j \in 1..Len(seq) : seq[i] = seq[j] => i = j

\* C7: however two finalize requests for a batch interleave, the discovery
\* tree is built at most once, no directory's entity is created twice and at
\* most one job message is sent.
C7_NoDuplicateWork ==
    /\ hist.builds <= 1
    /\ NoDuplicates(hist.created)
    /\ Len(queue) <= 1

ManifestKeys(manifest) ==
    UNION {{manifest.directories[i].files[j].r2_key :
                j \in 1..Len(manifest.directories[i].files)} :
           i \in 1..Len(manifest.directories)}

\* C8: once finalize has moved the batch on, every file whose addFile
\* succeeded is in the manifest finalize stored.
C8_ManifestHasEveryFile ==
    (status = "preprocessing" /\ r2Manifest # Undefined)
        => hist.added \subseteq ManifestKeys(r2Manifest)


-----------------------------------------------------------------------------
(* Finalize at the thresholds of the asynchronous path: batches of d         *)
(* directories /a, /a/a, ... with one binary file each and t text files in   *)
(* /a.  The handler runs with the thresholds of the source, which none of    *)
(* these batches reaches, and with thresholds scaled down to them.           *)

SmallDirs == 3
SmallTexts == 4
Margin == 1

DirCounts == {1} \cup ((SmallDirs - Margin)..(SmallDirs + Margin))
TextCounts == {0} \cup ((SmallTexts - Margin)..(SmallTexts + Margin))

\* The logical path of a file named name in the directory n levels down
NestedPath(n, name) ==
    [i \in 1..(n + 2) |-> IF i = 1 THEN "" ELSE IF i = n + 2 THEN name ELSE "a"]

BatchOf(d, t) ==
    [i \in 1..(d + t) |->
        Uploaded(IF i <= d
                 THEN File(ToString(i), NestedPath(i, "f"), <<"f", "png">>, "simple")
                 ELSE File(ToString(i), NestedPath(1, "t"), <<"t", "txt">>, "simple"))]

InitThreshold ==
    /\ files \in {BatchOf(d, t) : d \in DirCounts, t \in TextCounts}
    /\ InitWith({files}, [h \in Finalizers(1) |-> Handler("finalize")],
                {[upload |-> [k \in {files[i].r2_key : i \in 1..Len(files)} |-> "ok"],
                  batch |-> <<DISCOVERY_UPLOAD_BATCH_SIZE, DISCOVERY_ENTITY_BATCH_SIZE>>,
                  limits |-> l] :
                     l \in {<<SmallDirs, SmallTexts>>,
                            <<SYNC_DISCOVERY_MAX_DIRS, SYNC_DISCOVERY_MAX_TEXT_FILES>>}})

NextThreshold ==
    \/ \E h \in DOMAIN proc : FinalizeGetState(h)
    \/ \E h \in DOMAIN proc : FinalizeAsync(h)
    \/ \E h \in DOMAIN proc, creates \in {"ok", "fail"}, attached \in BOOLEAN :
           FinalizeSync(h, creates, attached)
    \/ \E h \in DOMAIN proc : FinalizeSetResults(h)
    \/ \E h \in DOMAIN proc, ok \in BOOLEAN : FinalizeSend(h, ok)
    \/ \E h \in DOMAIN proc : FinalizeUpdateStatus(h)

SpecThreshold == InitThreshold /\ [][NextThreshold]_vars

DirectoryCount == Cardinality({DirectoryOf(files[i].logical_path) : i \in 1..Len(files)})
TextFileCount == Cardinality({i \in 1..Len(files) : isTextFile(files[i].file_name)})

\* The batch is large for the thresholds the handler runs with: 50
\* directories and 100 text files, or the scaled ones
LargeBatch ==
    IF env.limits = <<SmallDirs, SmallTexts>>
    THEN DirectoryCount >= SmallDirs \/ TextFileCount >= SmallTexts
    ELSE DirectoryCount >= 50 \/ TextFileCount >= 100

-----------------------------------------------------------------------------
(* One finalize request arriving at any moment of the upload session *)

InitEarly ==
    InitWith({<<>>},
             [h \in Clients(NumClients) \cup Finalizers(1) |->
                 Handler(IF h \in Clients(NumClients) THEN "start" ELSE "finalize")],
             Envs(SubSeq(Uploads, 1, NumClients), {"ok"}, {<<SmallBatch, SmallBatch>>},
                  <<SYNC_DISCOVERY_MAX_DIRS, SYNC_DISCOVERY_MAX_TEXT_FILES>>))

SpecEarly == InitEarly /\ [][Next]_vars

\* C22: a finalize request that finds the batch 'uploading' with no file, or
\* with a file that is not 'completed', is answered 400; it starts no
\* discovery, writes no manifest, creates no entity, sends no message and
\* leaves the stored state, the status 'uploading' included, as it was.
C22_FinalizeRejected ==
    /\ [][\A h \in DOMAIN proc :
             (/\ proc[h].pc = "finalize" /\ proc'[h].pc # "finalize"
              /\ status = "uploading"
              /\ \/ files = <<>>
                 \/ \E i \in 1..Len(files) : files[i].status # "completed")
                 => /\ proc'[h].pc = "done" /\ proc'[h].ret.code = "400"
                    /\ StateGet' = StateGet /\ status' = "uploading"
                    /\ UNCHANGED <<doManifest, alarmSet, alarm, entities, queue,
                                   r2Manifest, hist>>]_vars
    /\ [](\A h \in Finalizers(1) :
             (proc[h].pc = "done" /\ proc[h].ret.code = "400")
                 => /\ status = "uploading" /\ disc = Undefined /\ ~alarmSet
                    /\ r2Manifest = Undefined /\ doManifest = Undefined
                    /\ entities = <<>> /\ queue = <<>> /\ hist.builds = 0)

\* Finalize was rejected while one file was completed and another was not
C22_RejectedWithFileUploading ==
    \E h \in Finalizers(1) :
        /\ proc[h].pc = "done" /\ proc[h].ret.code = "400"
        /\ \E i, j \in 1..Len(proc[h].st.files) :
              /\ proc[h].st.files[i].status = "completed"
              /\ proc[h].st.files[j].status = "uploading"


-----------------------------------------------------------------------------
(* The Tree Builder on its own: startDiscovery called with a manifest of up  *)
(* to MaxGroups directory groups, in any order.  The paths are those the     *)
(* finalize handler derives from logical paths validateLogicalPath accepts:  *)
(* '/', nested directories with and without files of their own, and the     *)
(* directories '/a/' and '//' of the paths '/a//x' and '///x', whose empty   *)
(* segments the validation filters out instead of rejecting.                 *)

MaxGroups == 3

TreePaths == <<Root, <<"", "a">>, <<"", "a", "b">>, <<"", "c", "d", "e">>,
               <<"", "a", "">>, <<"", "", "">>>>

\* The group of the i-th path: a text file and a binary file
GroupOf(i) ==
    [directory_path |-> TreePaths[i],
     files |-> <<[r2_key |-> Uploads[i].r2_key, file_name |-> <<"x", "txt">>],
                 [r2_key |-> "k7", file_name |-> <<"p", "png">>]>>]

RECURSIVE Arrangements(_, _)
Arrangements(S, n) ==
    IF n = 0 THEN {<<>>}
    ELSE {<<>>} \cup UNION {{<<x>> \o rest : rest \in Arrangements(S \ {x}, n - 1)} : x \in S}

Manifests ==
    {[directories |-> [i \in 1..Len(order) |-> GroupOf(order[i])],
      total_files |-> 2 * Len(order)] :
        order \in Arrangements(1..Len(TreePaths), MaxGroups)}

InitTree ==
    InitWith({<<>>}, <<>>,
             Envs(<<>>, {"ok"},
                  {<<DISCOVERY_UPLOAD_BATCH_SIZE, DISCOVERY_ENTITY_BATCH_SIZE>>},
                  <<SYNC_DISCOVERY_MAX_DIRS, SYNC_DISCOVERY_MAX_TEXT_FILES>>))

\* startDiscovery(manifest, parentPi), called once
StartDiscoveryCall(manifest) ==
    /\ disc = Undefined
    /\ InputGateOpen(gate)
    /\ StartDiscovery(manifest)
    /\ UNCHANGED <<gate, proc, alarm, env, entities, queue, r2Manifest, multipart,
                   clock, cas, chunker, kv>>

NextTree == \E manifest \in Manifests : StartDiscoveryCall(manifest)

SpecTree == InitTree /\ [][NextTree]_vars

Occurrences(seq, x) == Cardinality({i \in 1..Len(seq) : seq[i] = x})

\* C23: in the tree built from any manifest, every node but the root names a
\* parent that is a node, is listed exactly once among that parent's
\* children, and lies one level below it.
C23_TreeClosed ==
    disc # Undefined
        => \A p \in DOMAIN disc.nodes \ {Root} :
              LET node == disc.nodes[p]
              IN  /\ node.parent_path \in DOMAIN disc.nodes
                  /\ Occurrences(disc.nodes[node.parent_path].children_paths, p) = 1
                  /\ node.depth = disc.nodes[node.parent_path].depth + 1

\* A tree was built from a manifest that names /c/d/e and none of its ancestors
C23_AncestorsSynthesized ==
    /\ disc # Undefined
    /\ {<<"", "c">>, <<"", "c", "d">>, <<"", "c", "d", "e">>, Root} \subseteq DOMAIN disc.nodes
    /\ Len(doManifest.directories) = 1

\* C24: in the tree built from any manifest, the empty one and one without
\* root-level files included, the root is a node, current_depth is the
\* largest depth of a node and directories_total is the number of nodes.
C24_TreeStart ==
    disc # Undefined
        => /\ Root \in DOMAIN disc.nodes
           /\ \A p \in DOMAIN disc.nodes : disc.nodes[p].depth <= disc.current_depth
           /\ \E p \in DOMAIN disc.nodes : disc.nodes[p].depth = disc.current_depth
           /\ disc.directories_total = Cardinality(DOMAIN disc.nodes)

\* A tree was built from the empty manifest
C24_BuiltFromEmptyManifest ==
    /\ disc # Undefined
    /\ doManifest.directories = <<>>
    /\ DOMAIN disc.nodes = {Root}


-----------------------------------------------------------------------------
(* The Chunking Engine (lib/chunking.ts).  A string is the sequence of its   *)
(* characters; positions are those of the code, counted from 0.              *)

Min2(a, b) == IF a < b THEN a ELSE b
Max2(a, b) == IF a > b THEN a ELSE b

\* String.prototype.slice(a, b) for 0 <= a
StrSlice(str, a, b) == SubSeq(str, a + 1, Min2(b, Len(str)))

\* String.prototype.indexOf(ch): -1 when absent
IndexOfChar(str, ch) ==
    IF \E i \in 1..Len(str) : str[i] = ch
    THEN (CHOOSE i \in 1..Len(str) : str[i] = ch /\ \A j \in 1..(i - 1) : str[j] # ch) - 1
    ELSE -1

\* String.prototype.split(separator) for a non-empty separator
RECURSIVE StrSplit(_, _)
StrSplit(str, separator) ==
    LET n == Len(separator)
        hits == {i \in 1..(Len(str) - n + 1) : SubSeq(str, i, i + n - 1) = separator}
    IN  IF hits = {} THEN <<str>>
        ELSE LET i == CHOOSE h \in hits : \A k \in hits : h <= k
             IN  <<SubSeq(str, 1, i - 1)>> \o StrSplit(SubSeq(str, i + n, Len(str)), separator)

SEPARATORS == <<<<"\n", "\n">>, <<"\n">>, <<".", " ">>, <<",", " ">>, <<" ">>, <<>>>>

calculateChunkSize(fileSize, config) ==
    IF fileSize <= config.min_chunk_size THEN fileSize
    ELSE LET idealChunkSize == (fileSize + config.target_chunks - 1) \div config.target_chunks
         IN  Max2(config.min_chunk_size, Min2(config.max_chunk_size, idealChunkSize))

InternalChunk(text, char_start, char_end) ==
    [text |-> text, char_start |-> char_start, char_end |-> char_end]

getOverlapText(chunk, overlap) ==
    IF overlap <= 0 \/ Len(chunk) <= overlap THEN <<>>
    ELSE LET overlapText == SubSeq(chunk, Len(chunk) - overlap + 1, Len(chunk))
             spaceIndex == IndexOfChar(overlapText, " ")
         IN  IF spaceIndex > 0 /\ 2 * spaceIndex < overlap
             THEN StrSlice(overlapText, spaceIndex + 1, Len(overlapText))
             ELSE overlapText

\* The while loop of characterLevelSplit from position start on
RECURSIVE CharacterLoop(_, _, _, _, _)
CharacterLoop(text, chunkSize, overlap, start, chunks) ==
    IF start >= Len(text) THEN chunks
    ELSE LET end == Min2(start + chunkSize, Len(text))
             pushed == Append(chunks, InternalChunk(StrSlice(text, start, end), start, end))
             step == chunkSize - overlap
             next == IF step <= 0 THEN end ELSE start + step
         IN  IF Len(text) - next < overlap /\ next < Len(text)
             THEN [pushed EXCEPT ![Len(pushed)] =
                      InternalChunk(StrSlice(text, start, Len(text)), start, Len(text))]
             ELSE CharacterLoop(text, chunkSize, overlap, next, pushed)

characterLevelSplit(text, chunkSize, overlap) ==
    CharacterLoop(text, chunkSize, overlap, 0, <<>>)

RECURSIVE recursiveChunk(_, _, _, _)
RECURSIVE splitBySeparator(_, _, _, _, _)
RECURSIVE PartsLoop(_, _, _, _, _, _, _)

\* One iteration of the loop of splitBySeparator (lines 293-356) on the
\* part at position acc.position
Part(acc, part, isLast, chunkSize, overlap, separator, remainingSeparators) ==
    LET partWithSep == IF isLast THEN part ELSE part \o separator
        candidate == acc.currentChunk \o partWithSep
        after ==
            IF Len(candidate) <= chunkSize
            THEN [acc EXCEPT !.currentChunk = candidate]
            ELSE IF Len(acc.currentChunk) = 0
            THEN IF Len(part) > chunkSize /\ remainingSeparators # <<>>
                 THEN LET subChunks == recursiveChunk(part, chunkSize, overlap, remainingSeparators)
                      IN  [acc EXCEPT !.chunks = @ \o [j \in 1..Len(subChunks) |->
                                            InternalChunk(subChunks[j].text,
                                                          acc.position + subChunks[j].char_start,
                                                          acc.position + subChunks[j].char_end)],
                                      !.position = @ + Len(partWithSep),
                                      !.currentStart = acc.position + Len(partWithSep)]
                 ELSE LET truncated == StrSlice(partWithSep, 0, chunkSize)
                      IN  [acc EXCEPT !.chunks = Append(@, InternalChunk(truncated, acc.position,
                                                            acc.position + Len(truncated))),
                                      !.position = @ + Len(partWithSep),
                                      !.currentStart = acc.position + Len(partWithSep)]
            ELSE LET overlapText == getOverlapText(acc.currentChunk, overlap)
                     overlapStart == acc.currentStart + Len(acc.currentChunk) - Len(overlapText)
                     tooBig == Len(overlapText \o partWithSep) > chunkSize
                 IN  [acc EXCEPT !.chunks = Append(@, InternalChunk(acc.currentChunk, acc.currentStart,
                                                       acc.currentStart + Len(acc.currentChunk))),
                                 !.currentStart = IF tooBig THEN acc.position ELSE overlapStart,
                                 !.currentChunk = IF tooBig THEN partWithSep
                                                  ELSE overlapText \o partWithSep]
    IN  IF ~isLast
        THEN [after EXCEPT !.position = @ + Len(part) + Len(separator)]
        ELSE after

PartsLoop(acc, parts, i, chunkSize, overlap, separator, remainingSeparators) ==
    IF i > Len(parts) THEN acc
    ELSE PartsLoop(Part(acc, parts[i], i = Len(parts), chunkSize, overlap, separator,
                        remainingSeparators),
                   parts, i + 1, chunkSize, overlap, separator, remainingSeparators)

splitBySeparator(text, chunkSize, overlap, separator, remainingSeparators) ==
    IF separator = <<>> THEN characterLevelSplit(text, chunkSize, overlap)
    ELSE LET parts == StrSplit(text, separator)
         IN  IF Len(parts) = 1 THEN <<>>
             ELSE LET acc == PartsLoop([chunks |-> <<>>, currentChunk |-> <<>>,
                                        currentStart |-> 0, position |-> 0],
                                       parts, 1, chunkSize, overlap, separator,
                                       remainingSeparators)
                  IN  IF Len(acc.currentChunk) > 0
                      THEN Append(acc.chunks,
                                  InternalChunk(acc.currentChunk, acc.currentStart,
                                                acc.currentStart + Len(acc.currentChunk)))
                      ELSE acc.chunks

\* The for loop of recursiveChunk: the first separator that splits the text
RECURSIVE TrySeparators(_, _, _, _)
TrySeparators(text, chunkSize, overlap, separators) ==
    IF separators = <<>> THEN characterLevelSplit(text, chunkSize, overlap)
    ELSE LET chunks == splitBySeparator(text, chunkSize, overlap, Head(separators),
                                        Tail(separators))
         IN  IF Len(chunks) > 0 THEN chunks
             ELSE TrySeparators(text, chunkSize, overlap, Tail(separators))

recursiveChunk(text, chunkSize, overlap, separators) ==
    IF Len(text) <= chunkSize THEN <<InternalChunk(text, 0, Len(text))>>
    ELSE TrySeparators(text, chunkSize, overlap, separators)

chunkText(text, config) ==
    IF Len(text) < config.min_chunk_size THEN <<>>
    ELSE LET results == recursiveChunk(text, calculateChunkSize(Len(text), config),
                                       config.overlap, SEPARATORS)
         IN  [index \in 1..Len(results) |->
                 [id |-> index - 1, text |-> results[index].text,
                  char_start |-> results[index].char_start,
                  char_end |-> results[index].char_end]]

\* chunkText is called with a text and a configuration and returns
ChunkTextCall ==
    /\ chunker.pc = "call"
    /\ chunker' = [chunker EXCEPT !.pc = "returned",
                                  !.chunks = chunkText(chunker.text, chunker.config)]
    /\ UnchangedStore /\ UnchangedDiscovery
    /\ UNCHANGED <<gate, proc, env, r2Manifest, multipart, clock, cas, kv, hist>>

\* The texts and configurations of the model: every text of up to MaxLen
\* characters over a letter, the full stop, the space and the line break;
\* chunk sizes of a few characters, with and without overlap
MaxLen == 6
MinChunk == 2
MaxChunk == 3
TargetChunks == 3
MaxOverlap == 1

Alphabet == {"a", ".", " ", "\n"}
Texts == UNION {[1..n -> Alphabet] : n \in 0..MaxLen}
Configs == {[min_chunk_size |-> MinChunk, max_chunk_size |-> MaxChunk,
             target_chunks |-> t, overlap |-> o] :
               t \in 2..TargetChunks, o \in 0..MaxOverlap}

InitChunking ==
    InitAll({<<>>}, <<>>,
            Envs(<<>>, {"ok"}, {<<SmallBatch, SmallBatch>>},
                 <<SYNC_DISCOVERY_MAX_DIRS, SYNC_DISCOVERY_MAX_TEXT_FILES>>),
            {NotCalled},
            {[pc |-> "call", text |-> t, config |-> c, chunks |-> <<>>] :
                t \in Texts, c \in Configs})

NextChunking == ChunkTextCall

SpecChunking == InitChunking /\ [][NextChunking]_vars

Returned == chunker.pc = "returned" /\ Len(chunker.text) >= chunker.config.min_chunk_size

\* C25: the source ranges of the chunks of a text of at least min_chunk_size
\* characters, in the order returned, leave no gap: the first starts at 0,
\* each starts no later than the one before it ends, and every position of
\* the text lies in a range.
C25_ChunkCoverage ==
    Returned
        => LET chunks == chunker.chunks
           IN  /\ \A pos \in 0..(Len(chunker.text) - 1) :
                      \E i \in 1..Len(chunks) :
                          chunks[i].char_start <= pos /\ pos < chunks[i].char_end
               /\ \A i \in 1..(Len(chunks) - 1) :
                      chunks[i + 1].char_start <= chunks[i].char_end

\* C26: the text of every chunk returned is original.slice(char_start, char_end)
C26_ChunkPositions ==
    Returned
        => \A i \in 1..Len(chunker.chunks) :
              LET chunk == chunker.chunks[i]
              IN  chunk.text = StrSlice(chunker.text, chunk.char_start, chunk.char_end)

\* Some character of the text is one a separator begins with
HasSeparator(text) == \E i \in 1..Len(text) : text[i] \in {" ", "\n"}

\* C27: no chunk returned is longer than max_chunk_size, unless it is one
\* long word; a part that follows a closed chunk is not emitted whole when it
\* is too long.
C27_ChunkSizeBound ==
    Returned
        => \A i \in 1..Len(chunker.chunks) :
              \/ Len(chunker.chunks[i].text) <= chunker.config.max_chunk_size
              \/ ~HasSeparator(chunker.chunks[i].text)

\* C28: every chunk ends within the text and the last chunk ends where the
\* text ends.
C28_ChunkEnd ==
    Returned
        => /\ \A i \in 1..Len(chunker.chunks) : chunker.chunks[i].char_end <= Len(chunker.text)
           /\ chunker.chunks # <<>>
           /\ Last(chunker.chunks).char_end = Len(chunker.text)

\* A text was split at word boundaries into more than one chunk
C25_SplitAtWords ==
    /\ Returned
    /\ Len(chunker.chunks) > 1
    /\ \E i \in 1..Len(chunker.text) : chunker.text[i] = " "


-----------------------------------------------------------------------------
(* The steps of asynchronous discovery, one by one *)

\* The batch size of the step in progress
StepBatchSize == IF alarm.pc = "uploading" THEN env.batch[1] ELSE env.batch[2]

\* C29: a step never has more uploads (UPLOADING) or entity creations
\* (PUBLISHING) in flight than the step batch size of its phase: it selects
\* at most that many items when it begins and takes up no others before it
\* ends.
C29_BoundedFanOut ==
    /\ [](alarm.pc \in {"uploading", "publishing"}
             => Cardinality(alarm.inflight) <= StepBatchSize)
    /\ [][(alarm.pc \in {"uploading", "publishing"} /\ alarm'.pc = alarm.pc)
             => alarm'.inflight \subseteq alarm.inflight]_vars
    /\ [][(alarm.pc = "publishing" /\ Len(hist'.created) > Len(hist.created))
             => /\ Len(hist'.created) = Len(hist.created) + 1
                /\ \/ Cardinality(alarm'.inflight) < Cardinality(alarm.inflight)
                   \/ Cardinality(alarm'.orphans) < Cardinality(alarm.orphans)
                   \/ alarm'.pc = "idle"]_vars

\* A step with the smallest batch size is in progress and left eligible
\* directories for later steps
C29_StepLeftEligibleItems ==
    /\ alarm.pc = "publishing"
    /\ Cardinality(alarm.inflight) = env.batch[2]
    /\ Len(getDirectoriesReadyToPublish(alarm.read.disc)) > env.batch[2]


\* Every node is published and has its id, tip and version recorded
AllRecorded(ds) ==
    \A p \in DOMAIN ds.nodes :
        /\ ds.nodes[p].published
        /\ p \in DOMAIN ds.node_pis
        /\ p \in DOMAIN ds.node_tips
        /\ p \in DOMAIN ds.node_versions

\* C30: the phase goes from PUBLISHING to RELATIONSHIPS only when
\* current_depth is 0 and no directory is eligible; from then on, and in
\* DONE, every node is published and has an entry in the id, tip and version
\* maps, and in DONE root_pi is the id recorded for "/".
C30_CompleteAtCompletion ==
    /\ [][(disc # Undefined /\ disc' # Undefined
           /\ disc.phase = "PUBLISHING" /\ disc'.phase \in {"RELATIONSHIPS", "DONE"})
             => /\ disc.current_depth = 0
                /\ getDirectoriesReadyToPublish(disc) = <<>>
                /\ disc'.phase = "RELATIONSHIPS"
                /\ AllRecorded(disc')]_vars
    /\ []((disc # Undefined /\ disc.phase \in {"RELATIONSHIPS", "DONE"})
             => AllRecorded(disc))
    /\ []((disc # Undefined /\ disc.phase = "DONE")
             => /\ Root \in DOMAIN disc.node_pis
                /\ root_pi = disc.node_pis[Root])

\* Discovery of a tree with nested directories is done
C30_NestedTreeDone ==
    /\ disc # Undefined /\ disc.phase = "DONE"
    /\ \E p \in DOMAIN disc.nodes : disc.nodes[p].depth >= 1
    /\ root_pi = disc.node_pis[Root]


\* C31: when the attach of the root to the external parent has answered,
\* whether it succeeded or failed, the phase is DONE and the status
\* 'preprocessing', no retry has been counted, root_pi is the root's id, and
\* the recorded id, tip and version maps are what they were.
C31_AttachBestEffort ==
    [][(alarm.pc = "attaching" /\ alarm'.pc # "attaching")
          => /\ disc'.phase = "DONE"
             /\ status' = "preprocessing"
             /\ disc'.retry_count = disc.retry_count
             /\ disc'.error = disc.error
             /\ disc'.node_pis = disc.node_pis
             /\ disc'.node_tips = disc.node_tips
             /\ disc'.node_versions = disc.node_versions
             /\ root_pi' = disc.node_pis[Root]
             /\ alarm'.pc = "sending"]_vars

\* Discovery is done although the root entity was never attached
C31_DoneWithoutAttach ==
    /\ disc # Undefined /\ disc.phase = "DONE"
    /\ status = "preprocessing"
    /\ root_pi # Undefined
    /\ EntityOf(entities, root_pi).parent_pi = Undefined
    /\ queue # <<>>


-----------------------------------------------------------------------------
(* Large text files in discovery *)

\* The text a step reads from the bucket under a key (obj.text()): the file
\* under k1 is long enough to be chunked, the others are not
BlobText(r2_key) ==
    IF r2_key = "k1" THEN <<"a", "a", " ", "a", "a", " ">> ELSE <<"a">>

\* The chunking configuration at the scale of these texts
SmallChunking ==
    [min_chunk_size |-> MinChunk, max_chunk_size |-> MaxChunk,
     target_chunks |-> TargetChunks, overlap |-> MaxOverlap]

\* The number of chunks of the uploaded text files
ChunksTotal(ds) ==
    LET uploaded == {item \in TextFileItems(ds) :
                        /\ TextFileAt(ds, item).cid # Undefined
                        /\ TextFileAt(ds, item).cid # EmptyCid}
        count[S \in SUBSET uploaded] ==
            IF S = {} THEN 0
            ELSE LET item == CHOOSE x \in S : TRUE
                 IN  Len(chunkText(BlobText(TextFileAt(ds, item).r2_key), SmallChunking))
                       + count[S \ {item}]
    IN  count[uploaded]

\* C32: when the phase leaves UPLOADING for the next phase, it becomes
\* CHUNKING if an uploaded file produced chunks and PUBLISHING otherwise.
C32_ChunkingBeforePublishing ==
    [][(disc # Undefined /\ disc' # Undefined /\ disc.phase = "UPLOADING"
        /\ disc'.phase \notin {"UPLOADING", "ERROR"})
          => disc'.phase = IF ChunksTotal(disc') > 0 THEN "CHUNKING" ELSE "PUBLISHING"]_vars


\* C33: across failed steps, retries and repeated triggers, createEntity is
\* never invoked again for a directory whose creation already succeeded; no
\* directory has two entities.
C33_CreatedOnce ==
    /\ NoDuplicates(hist.created)
    /\ disc # Undefined => Len(entities) <= Cardinality(DOMAIN disc.nodes)

\* A step failed on one directory of its batch while the creation of another
\* directory of the batch succeeded after the failure
C33_CreatedAfterBatchFailed ==
    /\ disc # Undefined /\ disc.retry_count > 0
    /\ \E p \in Range(hist.created) : ~disc.nodes[p].published


-----------------------------------------------------------------------------
(* Requests to complete a file that do not pass validation *)

\* The file stored under a key, Undefined when the batch has none
FileOf(r2Key) ==
    IF IndexOf(files, r2Key) = 0 THEN Undefined ELSE files[IndexOf(files, r2Key)]

\* What the request is wrong about: it names a key the batch does not know,
\* or it is for a multipart file still uploading and lacks the upload id or
\* the parts, names another upload id, or carries malformed parts
Unacceptable(a) ==
    \/ FileOf(a.r2_key) = Undefined
    \/ /\ FileOf(a.r2_key) # Undefined
       /\ FileOf(a.r2_key).upload_type = "multipart"
       /\ FileOf(a.r2_key).status = "uploading"
       /\ \/ a.upload_id = Undefined
          \/ a.parts = Undefined
          \/ a.parts = BadParts
          \/ a.upload_id # <<"upload", a.r2_key>>

\* C34: a completeFile request for an unknown key, or for a multipart file
\* with a missing upload id, missing or malformed parts or another upload
\* id, is answered with an error (404 for the unknown key, 400 otherwise),
\* leaves the stored batch state as it was, the file in 'uploading', and
\* requests no multipart completion.
C34_CompleteFileRejected ==
    [][\A u \in DOMAIN proc : \A a \in CompleteArgs(u) :
          (Unacceptable(a) /\ CompleteFile(u, a.r2_key, a.upload_id, a.parts))
              => /\ StateGet' = StateGet
                 /\ multipart' = multipart
                 /\ proc'[u].ret.error # ""
                 /\ proc'[u].ret.code = IF FileOf(a.r2_key) = Undefined THEN "404" ELSE "400"
                 /\ FileOf(a.r2_key) # Undefined
                       => \E i \in 1..Len(files') :
                              /\ files'[i].r2_key = a.r2_key
                              /\ files'[i].status = "uploading"]_vars

\* A client was told its upload id does not match, and its multipart file
\* is still uploading
C34_MismatchRejected ==
    \E u \in DOMAIN proc :
        /\ proc[u].ret.code = "400"
        /\ proc[u].ret.error = "upload_id mismatch"
        /\ FileOf(UploadOf(u).r2_key) # Undefined
        /\ FileOf(UploadOf(u).r2_key).upload_type = "multipart"
        /\ ~IsCompleted(UploadOf(u).r2_key)
        /\ multipart = 0


-----------------------------------------------------------------------------
(* updateBatchState on the KV namespace: overlapping calls *)

\* The update function of handleCompleteFileUpload: the file is marked
\* completed
MarkCompleted(state, f) == [state EXCEPT ![f] = "completed"]

\* Step 3: kv.put of the loaded state with the version incremented
PutWrapped(current, state) ==
    [state |-> state, version |-> current.version + 1]

\* Step 1: loadBatchStateWithVersion
KvLoad(u) ==
    /\ kv.call[u].pc = "load"
    /\ kv' = [kv EXCEPT !.call[u] = [@ EXCEPT !.pc = "loaded", !.current = kv.stored]]
    /\ UnchangedStore /\ UnchangedDiscovery
    /\ UNCHANGED <<gate, proc, env, r2Manifest, multipart, clock, cas, chunker, hist>>

\* Steps 2 and 3: the update function runs on the loaded state and the
\* result is put.  A put that throws is retried from the load, at most
\* KV_MAX_RETRIES attempts in all.
KvPut(u, ok) ==
    /\ kv.call[u].pc = "loaded"
    /\ LET c == kv.call[u]
           written == PutWrapped(c.current, MarkCompleted(c.current.state, u))
       IN  kv' = IF ok
                 THEN [kv EXCEPT !.stored = written,
                                 !.call[u] = [c EXCEPT !.pc = "returned"]]
                 ELSE [kv EXCEPT !.call[u] =
                          IF c.attempt = KV_MAX_RETRIES
                          THEN [c EXCEPT !.pc = "thrown"]
                          ELSE [c EXCEPT !.pc = "load", !.attempt = @ + 1]]
    /\ UnchangedStore /\ UnchangedDiscovery
    /\ UNCHANGED <<gate, proc, env, r2Manifest, multipart, clock, cas, chunker, hist>>

InitKV ==
    InitAll({<<>>}, <<>>,
            Envs(<<>>, {"ok"}, {<<SmallBatch, SmallBatch>>},
                 <<SYNC_DISCOVERY_MAX_DIRS, SYNC_DISCOVERY_MAX_TEXT_FILES>>),
            {NotCalled}, {NotChunking})

NextKV ==
    \/ \E u \in Updaters : KvLoad(u)
    \/ \E u \in Updaters, ok \in BOOLEAN : KvPut(u, ok)

SpecKV == InitKV /\ [][NextKV]_vars

\* The calls whose update was applied: they returned to their caller
Applied == {u \in Updaters : kv.call[u].pc = "returned"}

\* C35: however updateBatchState calls for a batch overlap, the update of
\* every call that returned is in the stored state, and once no call is in
\* progress the stored version is the number of updates applied.
C35_NoLostUpdate ==
    /\ \A u \in Applied : kv.stored.state[u] = "completed"
    /\ (\A u \in Updaters : kv.call[u].pc \in {"returned", "thrown"})
          => kv.stored.version = Cardinality(Applied)


-----------------------------------------------------------------------------
(* Triggers delivered outside discovery *)

\* C36: a trigger delivered when there is no discovery state or the status
\* is not 'discovery' changes nothing stored, starts no step, creates no
\* entity, sends no message and leaves no trigger scheduled.
C36_AlarmNoOpOutsideDiscovery ==
    [][(AlarmDue /\ (status # "discovery" \/ disc = Undefined) /\ AlarmStep)
          => /\ UNCHANGED <<status, files, disc, root_pi, doManifest>>
             /\ UNCHANGED <<entities, queue, r2Manifest, multipart>>
             /\ alarm' = alarm
             /\ ~alarmSet']_vars

\* The message could not be sent after the batch had moved on to
\* 'preprocessing'; the retry scheduled for it was delivered and did nothing
C36_RetryTriggerIgnored ==
    /\ status = "preprocessing"
    /\ disc # Undefined /\ disc.error = <<"send">>
    /\ alarm.pc = "idle" /\ ~alarmSet
    /\ queue = <<>>


-----------------------------------------------------------------------------
(* The progress counters *)

-----------------------------------------------------------------------------
(* Discovery is never left without a trigger *)

\* C38: whenever the status is 'discovery' and the phase is UPLOADING,
\* PUBLISHING or RELATIONSHIPS, a step is executing or a trigger is scheduled.
C38_NoStrandedDiscovery ==
    (status = "discovery" /\ disc # Undefined
     /\ disc.phase \in {"UPLOADING", "PUBLISHING", "RELATIONSHIPS"})
        => (alarm.pc # "idle" \/ alarmSet)

\* A step has failed, its retry is scheduled and no step is executing
C38_RetryScheduled ==
    /\ status = "discovery" /\ disc # Undefined
    /\ disc.phase = "PUBLISHING" /\ disc.retry_count > 0
    /\ alarm.pc = "idle" /\ alarmSet

=============================================================================
